---------------------------- MODULE Spec2Model ----------------------------
(***************************************************************************)
(* A model of null.fs: peer-to-peer replication of a file tree ("volume"). *)
(*                                                                         *)
(*   - the contiguous-subsequence reducer      (src/src/nullfs/mod.rs)     *)
(*   - the local backend                       (src/src/nullfs/local_fs.rs)*)
(*   - Snapshot::capture and its State         (src/src/nullfs/snapshot.rs)*)
(*   - the command stash and the apply loop    (src/src/nullfs/share.rs)   *)
(*   - the /v1/commands handler and its auth   (src/src/server/api.rs,     *)
(*                                              src/src/config.rs)         *)
(*   - the Synchronizer cycle                  (src/src/nullfs/mod.rs)     *)
(*                                                                         *)
(* One peer node serves the volume "v"; one node pulls it.  The loop of    *)
(* run_sync over several volumes and peers is modelled by its position and *)
(* by the rows of the stash.  Two nodes that pull the volume from each      *)
(* other are modelled with one file.                                       *)
(* All the specifications below share the variables and the actions; each  *)
(* has its own Init and Next, which bound the inputs it explores.          *)
(***************************************************************************)
EXTENDS Integers, Sequences, FiniteSets, TLC

VARIABLES
    vpath,    \* NullFsPath: the path given to Display, or to LocalVolume::resolve
    vtext,    \* NullFsPath: its display form, once formatted
    vback,    \* NullFsPath: what from_to_str made of the display form, or what
              \* LocalVolume::resolve returned for the path
    rin,      \* reducer: the input sequence
    routs,    \* reducer: << reduce(rin), reduce(reduce(rin)), ... >> so far
    tree,     \* the peer's volume: path -> node or Absent
    now,      \* the peer's clock, in the unit of FileStat.modified
    snap,     \* the peer's snapshot state files: caller -> State or NoFile
    seen,     \* history: the peer's tree as of each caller's last capture
    mirror,   \* history: the last capture's commands applied to the tree
              \* as of the capture before it
    resp,     \* the last HTTP exchange on /v1/commands
    replica,  \* the pulling node's volume
    rows,     \* the pulling node's stash table Command, in timestamp order
    sync,     \* the Synchronizer's position in its cycle
    queue,    \* apply_commands: the rows of the running unstash not yet run
    last,     \* the last step of the Synchronizer, for the claims to read
    config,   \* run_sync: the volumes of the configuration, with their pull_from
    vol2relay,\* run_sync: the (volume, peers) lists in their shuffled order
    pc,       \* run_sync: its position in the loop
    pulled,   \* history: the pull results stashed in this cycle, per volume
    origin,   \* history: for each row that the loop of run_sync stashed, the
              \* peer whose answer held its command
    inflight, \* the peer's /v1/commands handlers that have loaded their state
              \* file and not yet saved it
    nodes,    \* two nodes that pull the volume from each other: for each its
              \* volume, its state file for the other node, its stash, and
              \* (history) what its user did last to the file it holds
    mclock,   \* the clock of the hosts of the two nodes
    mlast     \* the last step of the two nodes, for the claims to read

vars == << vpath, vtext, vback, rin, routs, tree, now, snap, seen, mirror, resp,
           replica, rows, sync, queue, last, config, vol2relay, pc, pulled, origin,
           inflight, nodes, mclock, mlast >>

pathVars == << vpath, vtext, vback >>
cycleVars == << config, vol2relay, pc, pulled, origin >>
\* what the peer and the pulling node of the one volume leave alone
mutualVars == << nodes, mclock, mlast >>
reduceVars == << rin, routs, pathVars, cycleVars, inflight, mutualVars >>
peerVars == << tree, now, snap, seen, mirror, resp >>
pullerVars == << replica, rows, sync, queue, last >>

\* markers are records, so that they compare with the records they stand in for
None == [ kind |-> "none" ]
Absent == [ kind |-> "absent" ]
NoFile == [ kind |-> "nofile" ]

-----------------------------------------------------------------------------
(* Sequence helpers.                                                       *)

RECURSIVE SeqsUpTo(_, _)
SeqsUpTo(S, n) ==
    IF n = 0 THEN { << >> }
    ELSE LET shorter == SeqsUpTo(S, n - 1)
         IN  shorter \cup { Append(s, x) : s \in { t \in shorter : Len(t) = n - 1 }, x \in S }

Range(s) == { s[i] : i \in 1..Len(s) }

Min(a, b) == IF a <= b THEN a ELSE b

\* a is b with some of its elements removed, the others in their order
RECURSIVE IsSubsequence(_, _)
IsSubsequence(a, b) ==
    IF a = << >> THEN TRUE
    ELSE IF b = << >> THEN FALSE
    ELSE IF Head(a) = Head(b) THEN IsSubsequence(Tail(a), Tail(b))
    ELSE IsSubsequence(a, Tail(b))

-----------------------------------------------------------------------------
(* reduce_contiguous_subsequences (mod.rs:451-470).                        *)

\* a loop that skips the elements behind the one it pushed without comparing
reduce_skip_unchecked(seq, out, i, len) == len

\* a run-length variant: only a repetition of the last element is seen
reduce_skip_single(seq, out, i, len) ==
    IF len >= 1 /\ out[Len(out)] = seq[i + 1] THEN 1 ELSE 0

\* the for loop of lines 459-464: the largest len in 1..max, tried from max
\* downwards, whose last len elements of out equal seq[i+1 .. i+len]; 0 if none
RECURSIVE reduce_skip(_, _, _, _)
reduce_skip(seq, out, i, len) ==
    IF len = 0 THEN 0
    ELSE IF SubSeq(out, Len(out) - len + 1, Len(out)) = SubSeq(seq, i + 1, i + len)
         THEN len
         ELSE reduce_skip(seq, out, i, len - 1)

\* the while loop of lines 455-467; i is the 1-based index of the element
\* pushed next (the code's i + 1)
RECURSIVE reduce_loop(_, _, _)
reduce_loop(seq, out, i) ==
    IF i > Len(seq) THEN out
    ELSE LET pushed == Append(out, seq[i])
             skip == reduce_skip(seq, pushed, i, Min(Len(pushed), Len(seq) - i))
         IN  reduce_loop(seq, pushed, i + 1 + skip)

\* the same while loop, keeping the positions i whose element line 456 pushes
RECURSIVE kept_positions(_, _, _, _)
kept_positions(seq, out, at, i) ==
    IF i > Len(seq) THEN at
    ELSE LET pushed == Append(out, seq[i])
             skip == reduce_skip(seq, pushed, i, Min(Len(pushed), Len(seq) - i))
         IN  kept_positions(seq, pushed, Append(at, i), i + 1 + skip)

\* a loop that stops one element early
reduce_all_but_last(seq) == reduce_loop(SubSeq(seq, 1, Len(seq) - 1), << >>, 1)

reduce_contiguous_subsequences(seq) == reduce_loop(seq, << >>, 1)


-----------------------------------------------------------------------------
(* NullFsPath as text (mod.rs:344-410).  A string is the sequence of its   *)
(* characters; a NullFsPath is the sequence of its segments.               *)

\* the characters of a segment; '/' is in none, as in a path component
Chars == { "a", "@" }

\* self.0.join("/") (line 408)
RECURSIVE join(_)
join(segments) ==
    IF segments = << >> THEN << >>
    ELSE IF Len(segments) = 1 THEN segments[1]
    ELSE segments[1] \o << "/" >> \o join(Tail(segments))

\* Display for NullFsPath (mod.rs:406-410)
to_string(path) == << "@", "/" >> \o join(path)

\* s.split('/') (line 355): the pieces between the separators, from the
\* i-th character on, piece being the one under way
RECURSIVE split(_, _, _)
split(s, i, piece) ==
    IF i > Len(s) THEN << piece >>
    ELSE IF s[i] = "/" THEN << piece >> \o split(s, i + 1, << >>)
    ELSE split(s, i + 1, Append(piece, s[i]))

Ok(path) == [ kind |-> "ok", path |-> path ]
Err(message) == [ kind |-> "err", message |-> message ]

\* NullFsPath::from_to_str (mod.rs:353-364); split yields at least one piece
from_to_str(s) ==
    LET ss == split(s, 1, << >>)
        first == ss[1]
    IN  IF first = << >> \/ first[1] /= "@"
        THEN Err("Path expected to start with @/")
        ELSE Ok(Tail(ss))

Text(s) == [ kind |-> "text", chars |-> s ]

\* p.to_string()
PathDisplay ==
    /\ vtext = None
    /\ vtext' = Text(to_string(vpath))
    /\ UNCHANGED << vpath, vback, rin, routs, cycleVars, inflight, mutualVars >>

\* NullFsPath::from_to_str on the display form
PathParse ==
    /\ vtext /= None
    /\ vback = None
    /\ vback' = from_to_str(vtext.chars)
    /\ UNCHANGED << vpath, vtext, rin, routs, cycleVars, inflight, mutualVars >>

-----------------------------------------------------------------------------
(* Paths, nodes and trees.                                                 *)
(*                                                                         *)
(* A NullFsPath (mod.rs:344) is its vector of components; the volume root  *)
(* @/v is << "v" >>.  The volume holds at most the three entries below:    *)
(* @/v/a, a file or a directory; @/v/a/x, a file; @/v/b, a file.           *)
(* A node is what the host file system keeps for a path: its kind, its     *)
(* modification time and, for a file, its bytes.  FileStat.created and     *)
(* FileStat.accessed are carried by File but read by no operation below   *)
(* and are left out; File.file_type is a function of the path.             *)

VolumeName == "v"
Root == << VolumeName >>
PathA == << VolumeName, "a" >>
PathAX == << VolumeName, "a", "x" >>
PathB == << VolumeName, "b" >>
Paths == { PathA, PathAX, PathB }
DirCapable == { PathA }
FileCapable == Paths

\* the two byte strings a file may hold: the empty one and a non-empty one
Contents == { "", "p" }

Parent(p) == SubSeq(p, 1, Len(p) - 1)

IsPrefix(p, q) == Len(p) <= Len(q) /\ SubSeq(q, 1, Len(p)) = p

\* Display for NullFsPath (mod.rs:406-410) orders the paths as strings;
\* among the paths of the volume that order is the one of this rank
PathRank(p) == CASE p = Root -> 0 [] p = PathA -> 1 [] p = PathAX -> 2 [] p = PathB -> 3

FileNode(c, t) == [ kind |-> "file", content |-> c, modified |-> t ]
DirNode(t) == [ kind |-> "dir", modified |-> t ]

EmptyTree == [ p \in Paths |-> Absent ]

IsDirIn(tr, p) == p = Root \/ (p \in Paths /\ tr[p].kind = "dir")
IsFileIn(tr, p) == p \in Paths /\ tr[p].kind = "file"

\* Path::exists on the host: every ancestor must be a directory
ExistsIn(tr, p) == p = Root \/ (p \in Paths /\ tr[p] /= Absent)

WellFormed(tr) ==
    \A p \in Paths : tr[p] /= Absent =>
        /\ IsDirIn(tr, Parent(p))
        /\ (tr[p].kind = "dir" => p \in DirCapable)

\* what two trees must share to be "equal" as replicas: paths, kinds, bytes
Shape(tr) ==
    [ p \in Paths |->
        IF tr[p] = Absent THEN << >>
        ELSE IF tr[p].kind = "dir" THEN << "dir" >> ELSE << "file", tr[p].content >> ]

\* u64 length of the file (local_fs.rs:164-166)
SizeOf(c) == IF c = "" THEN 0 ELSE 1

-----------------------------------------------------------------------------
(* The local backend, LocalVolume (local_fs.rs).                           *)

\* stats (local_fs.rs:145-172), wrapped into a File as dir does (111-115)
FileOf(tr, p) ==
    [ path |-> p,
      stat |-> [ node |-> IF tr[p].kind = "dir" THEN [ type |-> "dir" ]
                          ELSE [ type |-> "file", size |-> SizeOf(tr[p].content) ],
                 modified |-> tr[p].modified ] ]

is_dir(file) == file.stat.node.type = "dir"

\* a test that takes every entry for a file
is_file_always(file) == TRUE

is_file(file) == ~is_dir(file)

\* the children of p that exist, as a set
Children(tr, p) == { q \in Paths : Parent(q) = p /\ tr[q] /= Absent }

\* a set of paths as the sequence sorted by display form
RECURSIVE SortPaths(_)
SortPaths(S) ==
    IF S = {} THEN << >>
    ELSE LET least == CHOOSE p \in S : \A q \in S : PathRank(p) <= PathRank(q)
         IN  << least >> \o SortPaths(S \ { least })

\* a listing that leaves the directories out
dir_files_only(tr, p) ==
    LET ps == SortPaths({ q \in Children(tr, p) : IsFileIn(tr, q) })
    IN  [ i \in 1..Len(ps) |-> FileOf(tr, ps[i]) ]

\* dir (local_fs.rs:92-119): one level; empty when p is a file.  read_dir's
\* order is the host's; the only caller that depends on it (hash) sees at
\* most one child in this volume, and capture sorts the listing itself.
dir(tr, p) ==
    IF ~IsDirIn(tr, p) THEN << >>
    ELSE LET ps == SortPaths(Children(tr, p))
         IN  [ i \in 1..Len(ps) |-> FileOf(tr, ps[i]) ]

\* hash (local_fs.rs:174-198).  SHA-256 is modelled by its input, taken as
\* collision free: the bytes of a file, or the concatenation of
\* (child path, child hash) over dir(p).  An empty file and an empty
\* directory both hash the empty input.
RECURSIVE hash(_, _)
hash(tr, p) ==
    IF IsDirIn(tr, p)
    THEN LET ps == SortPaths(Children(tr, p))
             RECURSIVE cat(_)
             cat(i) == IF i > Len(ps) THEN << >>
                       ELSE << ps[i], hash(tr, ps[i]) >> \o cat(i + 1)
         IN  cat(1)
    ELSE IF tr[p].content = "" THEN << >> ELSE << tr[p].content >>

\* the paths at or below p
Below(p) == { q \in Paths : IsPrefix(p, q) }

\* delete (local_fs.rs:252-265): nothing when the path is absent, else
\* remove_dir_all or remove_file; always Ok in this model
delete(tr, file) ==
    IF ~ExistsIn(tr, file.path) THEN tr
    ELSE [ q \in Paths |-> IF q \in Below(file.path) THEN Absent ELSE tr[q] ]

\* write (local_fs.rs:237-250) fails when create_dir_all meets a file on the
\* way (the parent of a file, or the directory itself), or when
\* tokio::fs::write is given a directory
write_fails(tr, file) ==
    IF is_dir(file)
    THEN IsFileIn(tr, file.path) \/ IsFileIn(tr, Parent(file.path))
    ELSE IsFileIn(tr, Parent(file.path)) \/ IsDirIn(tr, file.path)

\* the tree after a write that does not fail; t is the host clock
write(tr, file, bytes, t) ==
    LET par == Parent(file.path)
        withParent == IF par /= Root /\ tr[par] = Absent
                      THEN [ tr EXCEPT ![par] = DirNode(t) ]
                      ELSE tr
    IN  IF is_dir(file)
        THEN IF ExistsIn(withParent, file.path) THEN withParent
             ELSE [ withParent EXCEPT ![file.path] = DirNode(t) ]
        ELSE [ withParent EXCEPT ![file.path] = FileNode(bytes, t) ]

-----------------------------------------------------------------------------
(* LocalVolume::resolve (local_fs.rs:20-39): from a NullFsPath to the path *)
(* on the host that the backend hands to tokio::fs.  A host path is the    *)
(* sequence of its components, from the host's root directory when it is   *)
(* absolute.  The components of a NullFsPath hold no separator: from_to_str *)
(* splits at every '/'.                                                    *)

\* LocalVolume.root after init (local_fs.rs:85): canonical and absolute
HostRoot == << "srv", "vol" >>

\* the components a request may put in a path
Segments == { VolumeName, "a", ".." }

\* LocalVolume::canonicalize (local_fs.rs:72-79): self.root.join(path) for a
\* relative path, which the output of resolve always is
canonicalize(path) == HostRoot \o path

\* LocalVolume::resolve (local_fs.rs:20-39): the first component is compared
\* with the volume's name when there is one, the others are pushed one by
\* one onto an empty PathBuf
LocalVolume_resolve(path) ==
    IF path /= << >> /\ path[1] /= VolumeName
    THEN Err("Wrong volume")
    ELSE Ok(canonicalize(IF path = << >> THEN << >> ELSE Tail(path)))

\* the location the host's path resolution reaches: ".." leaves the
\* directory reached so far, and stays at the host's root directory in it
RECURSIVE Walk(_, _)
Walk(at, host_path) ==
    IF host_path = << >> THEN at
    ELSE IF Head(host_path) = ".."
         THEN Walk(SubSeq(at, 1, Len(at) - 1), Tail(host_path))
         ELSE Walk(Append(at, Head(host_path)), Tail(host_path))

\* self.resolve(path)? at the head of every operation of the backend
\* (local_fs.rs:93, 122, 130, 138, 146, 175, 224, 230, 238, 253)
Resolve ==
    /\ vback = None
    /\ vback' = LocalVolume_resolve(vpath)
    /\ UNCHANGED << vpath, vtext, rin, routs, cycleVars, inflight, mutualVars >>

-----------------------------------------------------------------------------
(* Commands (mod.rs:60-67) and the snapshot State (snapshot.rs:18-25).     *)

Write(file) == [ type |-> "Write", file |-> file ]
Delete(file) == [ type |-> "Delete", file |-> file ]
Touch(file) == [ type |-> "Touch", file |-> file ]

\* a value of dirs: the IndexSet<File> of one directory, in its order
Listing(files) == [ kind |-> "listing", files |-> files ]

DirKeys == { Root } \cup Paths

\* State::new (snapshot.rs:28-32); hashes is never read nor written
NewState ==
    [ store |-> [ p \in Paths |-> None ],
      dirs |-> [ p \in DirKeys |-> None ],
      commands |-> << >> ]

\* IndexSet::insert: appended unless an equal element is already there
Insert(cmds, c) == IF c \in Range(cmds) THEN cmds ELSE Append(cmds, c)

RECURSIVE InsertAll(_, _)
InsertAll(cmds, cs) ==
    IF cs = << >> THEN cmds ELSE InsertAll(Insert(cmds, Head(cs)), Tail(cs))

\* update_on_change without the insert of line 41
update_on_change_no_insert(store, file) ==
    IF store[file.path] /= None
    THEN [ store |-> store, changed |-> store[file.path].stat.modified /= file.stat.modified ]
    ELSE [ store |-> [ store EXCEPT ![file.path] = file ], changed |-> TRUE ]

\* a comparison of sizes where line 40 compares modification times
update_on_change_size(store, file) ==
    IF store[file.path] /= None
    THEN IF store[file.path].stat.node /= file.stat.node
         THEN [ store |-> [ store EXCEPT ![file.path] = file ], changed |-> TRUE ]
         ELSE [ store |-> store, changed |-> FALSE ]
    ELSE [ store |-> [ store EXCEPT ![file.path] = file ], changed |-> TRUE ]

\* State::update_on_change (snapshot.rs:34-52) for an entry that is a file:
\* the store afterwards and the returned flag
update_on_change(store, file) ==
    IF store[file.path] /= None
    THEN IF store[file.path].stat.modified /= file.stat.modified
         THEN [ store |-> [ store EXCEPT ![file.path] = file ], changed |-> TRUE ]
         ELSE [ store |-> store, changed |-> FALSE ]
    ELSE [ store |-> [ store EXCEPT ![file.path] = file ], changed |-> TRUE ]

\* Snapshot::capture_path (snapshot.rs:131-205); capture_entries is its
\* for loop of lines 184-202, from the i-th entry on
RECURSIVE capture_path(_, _, _)
RECURSIVE capture_entries(_, _, _, _, _)
capture_path(st, tr, p) ==
    IF ~IsDirIn(tr, p) THEN st
    ELSE LET curr_files == dir(tr, p)
             prev_files == st.dirs[p]
             all_new == prev_files = None
             curr_set == { f.path : f \in Range(curr_files) }
             prev_set == IF all_new THEN {} ELSE { f.path : f \in Range(prev_files.files) }
             IsAdded(f) == f.path \notin prev_set
             IsRemoved(f) == f.path \notin curr_set
             added == IF all_new THEN << >> ELSE SelectSeq(curr_files, IsAdded)
             removed == IF all_new THEN << >> ELSE SelectSeq(prev_files.files, IsRemoved)
             writes == [ i \in 1..Len(added) |-> Write(added[i]) ]
             deletes == [ i \in 1..Len(removed) |-> Delete(removed[i]) ]
             diffed == [ st EXCEPT !.commands = InsertAll(InsertAll(@, writes), deletes),
                                   !.dirs[p] = Listing(curr_files) ]
         IN  capture_entries(diffed, tr, curr_files, 1, all_new)

\* a loop without the recursion of line 200
capture_entries_no_descend(st, tr, curr_files, i, all_new) ==
    IF i > Len(curr_files) THEN st
    ELSE LET entry == curr_files[i]
             written == IF all_new
                        THEN [ st EXCEPT !.commands = Insert(@, Write(entry)) ]
                        ELSE st
             upd == update_on_change(written.store, entry)
             visited ==
                 IF is_file(entry)
                 THEN [ written EXCEPT
                          !.store = upd.store,
                          !.commands = IF upd.changed THEN Insert(@, Touch(entry)) ELSE @ ]
                 ELSE written
         IN  capture_entries(visited, tr, curr_files, i + 1, all_new)

\* a loop that compares the modification time of directories too
capture_entries_touch_dirs(st, tr, curr_files, i, all_new) ==
    IF i > Len(curr_files) THEN st
    ELSE LET entry == curr_files[i]
             written == IF all_new
                        THEN [ st EXCEPT !.commands = Insert(@, Write(entry)) ]
                        ELSE st
             upd == update_on_change(written.store, entry)
             touched == [ written EXCEPT
                            !.store = upd.store,
                            !.commands = IF upd.changed THEN Insert(@, Touch(entry)) ELSE @ ]
             visited == IF is_file(entry) THEN touched
                        ELSE capture_path(touched, tr, entry.path)
         IN  capture_entries(visited, tr, curr_files, i + 1, all_new)

\* a loop that walks a directory before it inserts the Write of line 186
capture_entries_children_first(st, tr, curr_files, i, all_new) ==
    IF i > Len(curr_files) THEN st
    ELSE LET entry == curr_files[i]
             upd == update_on_change(st.store, entry)
             visited ==
                 IF is_file(entry)
                 THEN [ st EXCEPT
                          !.store = upd.store,
                          !.commands = IF upd.changed THEN Insert(@, Touch(entry)) ELSE @ ]
                 ELSE capture_path(st, tr, entry.path)
             written == IF all_new
                        THEN [ visited EXCEPT !.commands = Insert(@, Write(entry)) ]
                        ELSE visited
         IN  capture_entries(written, tr, curr_files, i + 1, all_new)

capture_entries(st, tr, curr_files, i, all_new) ==
    IF i > Len(curr_files) THEN st
    ELSE LET entry == curr_files[i]
             written == IF all_new
                        THEN [ st EXCEPT !.commands = Insert(@, Write(entry)) ]
                        ELSE st
             upd == update_on_change(written.store, entry)
             visited ==
                 IF is_file(entry)
                 THEN [ written EXCEPT
                          !.store = upd.store,
                          !.commands = IF upd.changed THEN Insert(@, Touch(entry)) ELSE @ ]
                 ELSE capture_path(written, tr, entry.path)
         IN  capture_entries(visited, tr, curr_files, i + 1, all_new)

\* finalize without the retain of lines 70-78
finalize_keeps_touch(st) ==
    LET deleted == { c.file.path : c \in { d \in Range(st.commands) : d.type = "Delete" } }
    IN  [ store |-> [ p \in Paths |-> IF p \in deleted THEN None ELSE st.store[p] ],
          dirs |-> [ p \in DirKeys |-> IF p \in deleted THEN None ELSE st.dirs[p] ],
          commands |-> st.commands ]

\* finalize without the swap_remove on dirs of line 61
finalize_keeps_dirs(st) ==
    LET deleted == { c.file.path : c \in { d \in Range(st.commands) : d.type = "Delete" } }
        created == { c.file.path : c \in { d \in Range(st.commands) : d.type = "Write" } }
        Kept(c) == ~(c.type = "Touch" /\ c.file.path \in created)
    IN  [ store |-> [ p \in Paths |-> IF p \in deleted THEN None ELSE st.store[p] ],
          dirs |-> st.dirs,
          commands |-> SelectSeq(st.commands, Kept) ]

\* State::finalize (snapshot.rs:54-85)
finalize(st) ==
    LET deleted == { c.file.path : c \in { d \in Range(st.commands) : d.type = "Delete" } }
        created == { c.file.path : c \in { d \in Range(st.commands) : d.type = "Write" } }
        Kept(c) == ~(c.type = "Touch" /\ c.file.path \in created)
    IN  [ store |-> [ p \in Paths |-> IF p \in deleted THEN None ELSE st.store[p] ],
          dirs |-> [ p \in DirKeys |-> IF p \in deleted THEN None ELSE st.dirs[p] ],
          commands |-> SelectSeq(st.commands, Kept) ]

\* a state file as written by save_to (snapshot.rs:104-112): commands is
\* #[serde(skip)]
Saved(st) == [ kind |-> "state", store |-> st.store, dirs |-> st.dirs ]

\* State::load_from with create_if_none (snapshot.rs:91-102)
load_from(file) ==
    IF file = NoFile THEN NewState
    ELSE [ store |-> file.store, dirs |-> file.dirs, commands |-> << >> ]

\* Snapshot::capture (snapshot.rs:120-129): the state file afterwards and the
\* returned commands (infer_commands, 87-89)
capture(file, tr) ==
    LET final == finalize(capture_path(load_from(file), tr, Root))
    IN  [ file |-> Saved(final), commands |-> final.commands ]

-----------------------------------------------------------------------------
(* ShareNode: the requests to the relay and run_command (share.rs).        *)
(*                                                                         *)
(* net says which requests of one run_command the relay would answer with  *)
(* a 2xx: [ hash |-> BOOLEAN, download |-> BOOLEAN ].  The relay answers   *)
(* from its tree as it is when asked.                                      *)

NetUp == [ hash |-> TRUE, download |-> TRUE ]
Nets == [ hash : BOOLEAN, download : BOOLEAN ]

\* ask_for_hash (share.rs:217-235) against the /v1/hash handler
\* (api.rs:122-149): 500 when fs.hash fails, which it does on a missing path
ask_for_hash_ok(remote, path, net) == net.hash /\ ExistsIn(remote, path)

\* download (share.rs:197-215) against /v1/download (api.rs:151-179):
\* fs.read fails on a missing path and on a directory
download_ok(remote, path, net) == net.download /\ IsFileIn(remote, path)

Result(tr, ok, calls) == [ tree |-> tr, ok |-> ok, calls |-> calls ]

\* lines 254-256 and 272-273: download, then fs.write; calls lists what ran
download_and_write(file, local, remote, net, t, calls) ==
    IF ~download_ok(remote, file.path, net)
    THEN Result(local, FALSE, Append(calls, "download"))
    ELSE IF write_fails(local, file)
         THEN Result(local, FALSE, calls \o << "download", "write" >>)
         ELSE Result(write(local, file, remote[file.path].content, t), TRUE,
                     calls \o << "download", "write" >>)

\* the two hashes never compare equal
hashes_never_equal(file, local, remote) == FALSE

\* lines 243-251 and 262-266: the local and the remote hash are equal
already_commited(file, local, remote) == hash(remote, file.path) = hash(local, file.path)

\* ShareNode::run_command (share.rs:237-278): the local tree afterwards,
\* whether it returned Ok, and the backend and relay calls it made
run_command(command, local, remote, net, t) ==
    LET file == command.file
    IN  CASE command.type = "Delete" ->
               Result(delete(local, file), TRUE, << "delete" >>)
          [] command.type = "Write" /\ is_dir(file) ->
               IF write_fails(local, file)
               THEN Result(local, FALSE, << "write" >>)
               ELSE Result(write(local, file, "", t), TRUE, << "write" >>)
          [] command.type = "Write" /\ is_file(file) ->
               IF ExistsIn(local, file.path)
               THEN IF ~ask_for_hash_ok(remote, file.path, net)
                    THEN Result(local, FALSE, << "ask_for_hash" >>)
                    ELSE IF already_commited(file, local, remote)
                         THEN Result(local, TRUE, << "ask_for_hash", "hash" >>)
                         ELSE download_and_write(file, local, remote, net, t,
                                                 << "ask_for_hash", "hash" >>)
               ELSE download_and_write(file, local, remote, net, t, << >>)
          [] command.type = "Touch" ->
               IF ExistsIn(local, file.path)
               THEN IF ~ask_for_hash_ok(remote, file.path, net)
                    THEN Result(local, FALSE, << "ask_for_hash" >>)
                    ELSE IF already_commited(file, local, remote)
                         THEN Result(local, TRUE, << "ask_for_hash", "hash" >>)
                         ELSE download_and_write(file, delete(local, file), remote, net, t,
                                                 << "ask_for_hash", "hash", "delete" >>)
               ELSE download_and_write(file, local, remote, net, t, << >>)

\* commands run one after the other against a relay that answers every
\* request; a command that fails leaves what it did and the next one runs
RECURSIVE run_all(_, _, _, _)
run_all(commands, local, remote, t) ==
    IF commands = << >> THEN local
    ELSE run_all(Tail(commands), run_command(Head(commands), local, remote, NetUp, t).tree,
                 remote, t)

-----------------------------------------------------------------------------
(* CommandStash (share.rs:30-164).  The table Command is the sequence of   *)
(* its rows in insertion order; a row's id is a fresh UUID, here its       *)
(* index; its timestamp is the reading of Utc::now() at its insertion, in  *)
(* the unit in which to_rfc3339 writes it.                                 *)

Pending == 0
Done == 5

\* the hash column (share.rs:72-81): a digest of the command, taken as
\* collision free
CommandHash(command) == << "sha256", command >>

\* an INSERT OR REPLACE keyed by hash: a command already in the table takes
\* the place of its row
stash_upsert(table, commands, volume, times) ==
    LET Kept(row) == \A i \in 1..Len(commands) : row.hash /= CommandHash(commands[i])
        kept == SelectSeq(table, Kept)
    IN  kept \o [ i \in 1..Len(commands) |->
                    [ id |-> Len(table) + i,
                      hash |-> CommandHash(commands[i]),
                      command |-> commands[i],
                      timestamp |-> times[i],
                      volume |-> volume,
                      state |-> Pending ] ]

\* the timestamp of the row inserted last, 0 for the empty table
LastTimestamp(table) == IF table = << >> THEN 0 ELSE table[Len(table)].timestamp

\* Utc::now() (share.rs:83) at n inserts that follow one another, for a
\* clock that moves between any two readings
Ticking(table, n) == [ i \in 1..n |-> LastTimestamp(table) + i ]

\* Utc::now() at n inserts for a clock that does not go back: a reading is
\* the one before it, or the next value
Readings(table, n) ==
    { times \in [ 1..n -> LastTimestamp(table)..(LastTimestamp(table) + n) ] :
        \A i \in 1..n : times[i] - (IF i = 1 THEN LastTimestamp(table) ELSE times[i - 1])
                             \in { 0, 1 } }

\* CommandStash::stash (share.rs:67-104); times are the readings of Utc::now()
\* of line 83, one for each command
RECURSIVE stash(_, _, _, _)
stash(table, commands, volume, times) ==
    IF commands = << >> THEN table
    ELSE stash(Append(table, [ id |-> Len(table) + 1,
                               hash |-> CommandHash(Head(commands)),
                               command |-> Head(commands),
                               timestamp |-> Head(times),
                               volume |-> volume,
                               state |-> Pending ]),
               Tail(commands), volume, Tail(times))

\* the WHERE clause of the SELECT of unstash (share.rs:107-114)
IsPendingOf(volume, row) == row.state = Pending /\ row.volume = volume

\* a SELECT that forgets the state
rows_of_volume(table, volume) ==
    LET Sel(row) == row.volume = volume IN SelectSeq(table, Sel)

\* the rows of the SELECT of unstash (share.rs:107-114), in insertion order:
\* the order of ORDER BY timestamp ASC when no two of them share a timestamp
pending_rows(table, volume) ==
    LET Sel(row) == IsPendingOf(volume, row) IN SelectSeq(table, Sel)

\* ORDER BY timestamp ASC (share.rs:110) names no other column: the rows in
\* any order in which the timestamps do not decrease
order_by_timestamp(selected) ==
    { [ i \in 1..Len(selected) |-> selected[f[i]] ] :
        f \in { g \in [ 1..Len(selected) -> 1..Len(selected) ] :
                  /\ \A a, b \in 1..Len(selected) : g[a] = g[b] => a = b
                  /\ \A a, b \in 1..Len(selected) :
                         a < b => selected[g[a]].timestamp <= selected[g[b]].timestamp } }

\* results.get(k) (share.rs:135-151): results is keyed by hash, and insert
\* replaces the row of a hash already there: the last row with hash k
results_get(selected, k) ==
    LET i == CHOOSE j \in 1..Len(selected) :
                 /\ selected[j].hash = k
                 /\ \A l \in (j + 1)..Len(selected) : selected[l].hash /= k
    IN  selected[i]

\* CommandStash::unstash from its for loop on (share.rs:116-152): selected
\* is what the SELECT returned
unstash_rows(selected) ==
    LET contiguous_hashes == [ i \in 1..Len(selected) |-> selected[i].hash ]
        collapsed_ops == reduce_contiguous_subsequences(contiguous_hashes)
    IN  [ i \in 1..Len(collapsed_ops) |-> results_get(selected, collapsed_ops[i]) ]

\* CommandStash::unstash (share.rs:106-153) on a table in which no two rows
\* share a timestamp
unstash(table, volume) == unstash_rows(pending_rows(table, volume))

\* an UPDATE keyed by hash: every row with the hash of the given row is marked
mark_done_by_hash(table, stashed) ==
    [ i \in 1..Len(table) |->
        IF table[i].hash = stashed.hash THEN [ table[i] EXCEPT !.state = Done ] ELSE table[i] ]

\* CommandStash::mark_done (share.rs:155-163)
mark_done(table, stashed) ==
    [ i \in 1..Len(table) |->
        IF table[i].id = stashed.id THEN [ table[i] EXCEPT !.state = Done ] ELSE table[i] ]

-----------------------------------------------------------------------------
(* The peer's configuration (config.rs:42-50) and authorization.           *)

NoPassword == << >>
Some(pw) == << pw >>
User(name, password) == [ name |-> name, password |-> password ]

\* config.users, in the order of the IndexSet
ConfigUsers == << User("alice", Some("s1")), User("bob", NoPassword), User("carol", Some("s2")) >>

\* config.volumes: volume name -> allow
ConfigVolumes == { VolumeName }
ConfigAllow(volume) == << "alice", "bob" >>

\* the credentials the pulling node is configured with for this relay
\* (RelayNode.auth, config.rs:21-24)
RelayAuth == User("alice", Some("s1"))

\* NodeConfig::resolve_user (config.rs:127-129): the first user of that name
resolve_user(name) ==
    LET i == CHOOSE j \in 1..Len(ConfigUsers) :
                 /\ ConfigUsers[j].name = name
                 /\ \A l \in 1..(j - 1) : ConfigUsers[l].name /= name
    IN  ConfigUsers[i]

\* allow that compares the user name only
allow_name_only(volume, user) ==
    /\ volume \in ConfigVolumes
    /\ \E i \in 1..Len(ConfigAllow(volume)) : ConfigAllow(volume)[i] = user.name

\* NodeConfig::allow (config.rs:131-147)
allow(volume, user) ==
    /\ volume \in ConfigVolumes
    /\ \E i \in 1..Len(ConfigAllow(volume)) : resolve_user(ConfigAllow(volume)[i]) = user

\* check_auth (api.rs:11-28): TRUE when the request may proceed
check_auth(user, volume) == allow(volume, user)

\* str::trim of the volume parameter (api.rs:67)
Trim(s) == IF s = " v " THEN "v" ELSE s

-----------------------------------------------------------------------------
(* The callers, and the bounds.                                            *)

\* the node ids of the nodes that pull from the peer; X is the pulling node
\* of this model
NodeX == "X"
NodeY == "Y"
Callers == { NodeX, NodeY }

\* the peer's clock stops here: at most MaxClock mutations of its volume
MaxClock == 3
\* the longest sequence given to the reducer, over the symbols 1..MaxSym
MaxLen == 4
MaxSym == 3

-----------------------------------------------------------------------------
(* The peer's volume changes under it.  Each change happens at a later     *)
(* time than the one before (spec: mtime does not go back between          *)
(* mutations); a directory's mtime follows the changes of its entries.     *)

Bump(tr, p, t) ==
    IF Parent(p) = Root THEN tr ELSE [ tr EXCEPT ![Parent(p)].modified = t ]

PeerCreateFile(p, c) ==
    /\ now < MaxClock
    /\ tree[p] = Absent
    /\ IsDirIn(tree, Parent(p))
    /\ tree' = Bump([ tree EXCEPT ![p] = FileNode(c, now + 1) ], p, now + 1)
    /\ now' = now + 1
    /\ UNCHANGED << snap, seen, mirror, resp >>
    /\ UNCHANGED << reduceVars, pullerVars >>

PeerMkdir(p) ==
    /\ now < MaxClock
    /\ tree[p] = Absent
    /\ IsDirIn(tree, Parent(p))
    /\ tree' = Bump([ tree EXCEPT ![p] = DirNode(now + 1) ], p, now + 1)
    /\ now' = now + 1
    /\ UNCHANGED << snap, seen, mirror, resp >>
    /\ UNCHANGED << reduceVars, pullerVars >>

PeerDelete(p) ==
    /\ now < MaxClock
    /\ tree[p] /= Absent
    /\ tree' = Bump([ q \in Paths |-> IF q \in Below(p) THEN Absent ELSE tree[q] ], p, now + 1)
    /\ now' = now + 1
    /\ UNCHANGED << snap, seen, mirror, resp >>
    /\ UNCHANGED << reduceVars, pullerVars >>

\* the file is rewritten with bytes c (the same bytes: only its mtime moves)
PeerModify(p, c) ==
    /\ now < MaxClock
    /\ IsFileIn(tree, p)
    /\ tree' = [ tree EXCEPT ![p] = FileNode(c, now + 1) ]
    /\ now' = now + 1
    /\ UNCHANGED << snap, seen, mirror, resp >>
    /\ UNCHANGED << reduceVars, pullerVars >>

PeerMutation ==
    \/ \E p \in FileCapable, c \in Contents : PeerCreateFile(p, c)
    \/ \E p \in DirCapable : PeerMkdir(p)
    \/ \E p \in Paths : PeerDelete(p)
    \/ \E p \in FileCapable, c \in Contents : PeerModify(p, c)

-----------------------------------------------------------------------------
(* GET /v1/commands (api.rs:61-91).                                        *)

Seen(tr) == [ kind |-> "tree", tree |-> tr ]

\* one state file for every caller
state_file_shared(node_id) == "X"

\* the state file .ext-state-<this node>-<node_id>.json (api.rs:75-78)
state_file(node_id) == node_id

\* the handler, as it changes the peer: an unauthorized request is answered
\* 400 before anything else runs; an authorized one captures into the
\* caller's state file and answers 200 with the commands.  repeat records
\* that the volume has not changed since this caller's capture before.
commands(node_id, user, volume_param) ==
    LET volume_name == Trim(volume_param)
        cap == capture(snap[state_file(node_id)], tree)
    IN  IF ~check_auth(user, volume_name)
        THEN /\ resp' = [ node_id |-> node_id, user |-> user, volume |-> volume_param,
                          status |-> 400, body |-> << >>, repeat |-> FALSE ]
             /\ UNCHANGED << snap, seen, mirror >>
        ELSE /\ resp' = [ node_id |-> node_id, user |-> user, volume |-> volume_param,
                          status |-> 200, body |-> cap.commands,
                          repeat |-> seen[node_id] = Seen(tree) ]
             /\ snap' = [ snap EXCEPT ![state_file(node_id)] = cap.file ]
             /\ seen' = [ seen EXCEPT ![node_id] = Seen(tree) ]
             /\ mirror' = [ mirror EXCEPT ![node_id] =
                              IF seen[node_id] = None THEN None
                              ELSE Seen(run_all(cap.commands, seen[node_id].tree, tree, now)) ]

CommandsRequest(node_id, user, volume_param) ==
    /\ commands(node_id, user, volume_param)
    /\ UNCHANGED << tree, now >>
    /\ UNCHANGED << reduceVars, pullerVars >>

-----------------------------------------------------------------------------
(* The /v1/commands handler as it runs in time: Snapshot::capture loads    *)
(* the state file (snapshot.rs:121), walks the volume, and saves the file  *)
(* (snapshot.rs:126).  The server takes no lock: the handlers of several   *)
(* requests run at once.  inflight lists the handlers between their load   *)
(* and their save, each with the file it loaded.                           *)

\* the handlers that may run at once
MaxInflight == 2

\* a caller that sends its next request without waiting for the answer
awaits_never(node_id, handlers) == FALSE

\* ShareNode::pull awaits the answer of its request (share.rs:169-177), and
\* run_sync awaits pull (mod.rs:205) before it makes the next one: whether
\* the caller is waiting for an answer
awaits(node_id, handlers) == \E i \in 1..Len(handlers) : handlers[i].node_id = node_id

\* a request of a caller arrives; the handler loads the caller's state file
HandlerBegin(node_id) ==
    /\ ~awaits(node_id, inflight)
    /\ Len(inflight) < MaxInflight
    /\ inflight' = Append(inflight, [ node_id |-> node_id,
                                      file |-> state_file(node_id),
                                      loaded |-> snap[state_file(node_id)] ])
    /\ UNCHANGED << tree, now, snap, seen, mirror, resp >>
    /\ UNCHANGED << rin, routs, pathVars, cycleVars, mutualVars, pullerVars >>

\* the i-th handler walks the volume, saves its state file and answers
HandlerEnd(i) ==
    /\ i \in 1..Len(inflight)
    /\ LET r == inflight[i]
           cap == capture(r.loaded, tree)
       IN  /\ snap' = [ snap EXCEPT ![r.file] = cap.file ]
           /\ seen' = [ seen EXCEPT ![r.node_id] = Seen(tree) ]
           /\ resp' = [ node_id |-> r.node_id, user |-> RelayAuth, volume |-> VolumeName,
                        status |-> 200, body |-> cap.commands,
                        repeat |-> seen[r.node_id] = Seen(tree) ]
    /\ inflight' = SubSeq(inflight, 1, i - 1) \o SubSeq(inflight, i + 1, Len(inflight))
    /\ UNCHANGED << tree, now, mirror >>
    /\ UNCHANGED << rin, routs, pathVars, cycleVars, mutualVars, pullerVars >>

-----------------------------------------------------------------------------
(* Files that are moved out of the peer's volume and back.  A rename keeps *)
(* the file's mtime and bytes, so the file that comes back is the File     *)
(* that was there before, and capture reports it with the same Write.      *)

MovedFile == FileNode("p", 0)

PeerMoveAway(p) ==
    /\ tree[p] = MovedFile
    /\ tree' = [ tree EXCEPT ![p] = Absent ]
    /\ UNCHANGED << now, snap, seen, mirror, resp >>
    /\ UNCHANGED << reduceVars, pullerVars >>

PeerMoveBack(p) ==
    /\ tree[p] = Absent
    /\ IsDirIn(tree, Parent(p))
    /\ tree' = [ tree EXCEPT ![p] = MovedFile ]
    /\ UNCHANGED << now, snap, seen, mirror, resp >>
    /\ UNCHANGED << reduceVars, pullerVars >>

-----------------------------------------------------------------------------
(* The Synchronizer of the pulling node (mod.rs:149-242), for its one      *)
(* volume and the one relay it pulls from.  sync is "pull" at the start of *)
(* a cycle, "apply" once the pull phase is over, and "applying" inside     *)
(* apply_commands.  Every step stamps last with what it did.               *)

\* the stash may hold at most MaxRows rows
MaxRows == 4

Event(kind) == [ kind |-> kind ]

\* pull phase, lines 201-203: the relay does not answer the liveness probe
PullNotAlive ==
    /\ sync = "pull"
    /\ sync' = "apply"
    /\ last' = Event("pull-skipped")
    /\ UNCHANGED << replica, rows, queue >>
    /\ UNCHANGED << reduceVars, peerVars >>

\* pull phase, lines 205-214, with ShareNode::pull (share.rs:167-195): the
\* relay runs its handler and the commands of its answer are stashed, the
\* node's clock moving between two inserts
Pull ==
    /\ sync = "pull"
    /\ commands(NodeX, RelayAuth, VolumeName)
    /\ Len(rows) + Len(resp'.body) <= MaxRows
    /\ rows' = IF resp'.status = 200
               THEN stash(rows, resp'.body, VolumeName, Ticking(rows, Len(resp'.body)))
               ELSE rows
    /\ sync' = "apply"
    /\ last' = Event("pull")
    /\ UNCHANGED << tree, now, replica, queue >>
    /\ UNCHANGED reduceVars

\* the same pull with a clock that may give two inserts the same reading
PullTied ==
    /\ sync = "pull"
    /\ commands(NodeX, RelayAuth, VolumeName)
    /\ Len(rows) + Len(resp'.body) <= MaxRows
    /\ \E times \in Readings(rows, Len(resp'.body)) :
           rows' = IF resp'.status = 200
                   THEN stash(rows, resp'.body, VolumeName, times)
                   ELSE rows
    /\ sync' = "apply"
    /\ last' = Event("pull")
    /\ UNCHANGED << tree, now, replica, queue >>
    /\ UNCHANGED reduceVars

\* the same pull when ShareNode::pull returns an error after the relay has
\* run its handler: the answer does not arrive (share.rs:175-176), it cannot
\* be parsed (186-189), or an insert of stash fails (share.rs:100, 192), the
\* first k commands of the answer being in the table by then
PullLost(k) ==
    /\ sync = "pull"
    /\ commands(NodeX, RelayAuth, VolumeName)
    /\ k < Len(resp'.body)
    /\ Len(rows) + k <= MaxRows
    /\ rows' = stash(rows, SubSeq(resp'.body, 1, k), VolumeName, Ticking(rows, k))
    /\ sync' = "apply"
    /\ last' = [ kind |-> "pull-failed", appended |-> k ]
    /\ UNCHANGED << tree, now, replica, queue >>
    /\ UNCHANGED reduceVars

\* apply phase, lines 223-225: the relay does not answer the liveness probe
ApplyNotAlive ==
    /\ sync = "apply"
    /\ sync' = "pull"
    /\ last' = Event("apply-skipped")
    /\ UNCHANGED << replica, rows, queue >>
    /\ UNCHANGED << reduceVars, peerVars >>

\* apply_commands, line 281: the unstash
ApplyStart ==
    /\ sync = "apply"
    /\ queue' = unstash(rows, VolumeName)
    /\ sync' = "applying"
    /\ last' = Event("unstash")
    /\ UNCHANGED << replica, rows >>
    /\ UNCHANGED << reduceVars, peerVars >>

\* apply_commands, line 281: the unstash of a table in which rows may share
\* a timestamp
ApplyStartTied ==
    /\ sync = "apply"
    /\ \E selected \in order_by_timestamp(pending_rows(rows, VolumeName)) :
           queue' = unstash_rows(selected)
    /\ sync' = "applying"
    /\ last' = Event("unstash")
    /\ UNCHANGED << replica, rows >>
    /\ UNCHANGED << reduceVars, peerVars >>

\* always marks the row done
apply_row_always_marks(table, op, ok) == mark_done(table, op)

\* lines 283-290: run_command, then mark_done unless it failed; the error is
\* logged and dropped
apply_row(table, op, ok) == IF ok THEN mark_done(table, op) ELSE table

\* apply_commands, lines 282-291: one turn of the loop, with what the relay
\* answers during it
ApplyRow(net) ==
    /\ sync = "applying"
    /\ queue /= << >>
    /\ LET op == Head(queue)
           path == op.command.file.path
           r == run_command(op.command, replica, tree, net, now)
       IN  /\ replica' = r.tree
           /\ rows' = apply_row(rows, op, r.ok)
           /\ last' = [ kind |-> "run", row |-> op, ok |-> r.ok, calls |-> r.calls,
                        existed |-> ExistsIn(replica, path),
                        was_dir |-> IsDirIn(replica, path),
                        all_ok |-> r.ok /\ (last.kind = "run" => last.all_ok),
                        was_done |-> \E i \in 1..Len(rows) :
                                         rows[i].id = op.id /\ rows[i].state = Done,
                        same_hash |-> /\ ExistsIn(replica, path)
                                      /\ ask_for_hash_ok(tree, path, net)
                                      /\ hash(tree, path) = hash(replica, path),
                        changed |-> r.tree /= replica ]
    /\ queue' = Tail(queue)
    /\ UNCHANGED sync
    /\ UNCHANGED << reduceVars, peerVars >>

\* the shutdown token (mod.rs:244-256) drops apply_commands at the await of
\* mark_done of line 286: the command has run, the row is not marked
ApplyRowCancelled(net) ==
    /\ sync = "applying"
    /\ queue /= << >>
    /\ LET op == Head(queue)
           r == run_command(op.command, replica, tree, net, now)
       IN  /\ r.ok
           /\ replica' = r.tree
    /\ queue' = << >>
    /\ sync' = "pull"
    /\ last' = Event("cancelled")
    /\ UNCHANGED rows
    /\ UNCHANGED << reduceVars, peerVars >>

\* apply_commands returns; the cycle sleeps (line 240) and the next begins
ApplyEnd ==
    /\ sync = "applying"
    /\ queue = << >>
    /\ sync' = "pull"
    /\ last' = Event("cycle-end")
    /\ UNCHANGED << replica, rows, queue >>
    /\ UNCHANGED << reduceVars, peerVars >>

\* Synchronizer::run (mod.rs:244-256): the shutdown token drops run_sync at
\* whatever await it is in; the node starts again with a new cycle
Cancel ==
    /\ sync /= "pull"
    /\ sync' = "pull"
    /\ queue' = << >>
    /\ last' = Event("cancelled")
    /\ UNCHANGED << replica, rows >>
    /\ UNCHANGED << reduceVars, peerVars >>

SyncStep ==
    \/ PullNotAlive
    \/ Pull
    \/ ApplyNotAlive
    \/ ApplyStart
    \/ \E net \in Nets : ApplyRow(net)
    \/ \E net \in Nets : ApplyRowCancelled(net)
    \/ ApplyEnd
    \/ Cancel

-----------------------------------------------------------------------------
(* Synchronizer::run_sync over all the volumes and peers of a              *)
(* configuration (mod.rs:149-242): the start-up and the two for loops of   *)
(* a cycle.  pc.phase is "boot" before the start-up, "failed" when it      *)
(* returned an error, "top" and "sleep" at the head of the loop, "pull"    *)
(* and "apply" inside the phases, "cancelled" once the shutdown token has  *)
(* dropped the task.  pc.vol is the index of the volume being processed    *)
(* (0 before the first), pc.peer the index of the peer to visit next (0    *)
(* when the volume's loop is over), pc.round the parity of the cycle.      *)

\* relay_nodes (config.rs:48): the aliases the configuration defines
RelayNodes == { "r1", "r2" }

\* an alias that relay_nodes does not define
UnknownAlias == "zz"

\* the names of the volumes (config.rs:49), in the order of the IndexMap
VolumeNames == << "v", "w" >>

\* resolve_alias (config.rs:120-125): whether it returns Ok
resolve_alias(value) == value \in RelayNodes

\* lines 158-180: whether every alias of every pull_from resolves, the `?`
\* of line 180 returning the first error otherwise
resolves(cfg) ==
    \A i \in 1..Len(cfg) : \A k \in 1..Len(cfg[i].pull_from) :
        resolve_alias(cfg[i].pull_from[k])

\* lines 158-180: one list per volume, of one element per alias of pull_from
resolve(cfg) ==
    [ i \in 1..Len(cfg) |-> [ volume |-> cfg[i].name, peers |-> cfg[i].pull_from ] ]

\* Vec::is_empty on the list of lists (line 182)
is_empty(lists) == Len(lists) = 0

\* the (volume, peer) pairs of a configuration
Pairs(cfg) ==
    UNION { { << cfg[i].name, cfg[i].pull_from[k] >> : k \in 1..Len(cfg[i].pull_from) } :
              i \in 1..Len(cfg) }

\* shuffle (lines 193, 198, 220): every order of the elements
shuffle(s) ==
    { [ i \in 1..Len(s) |-> s[f[i]] ] :
        f \in { g \in [ 1..Len(s) -> 1..Len(s) ] :
                  \A a, b \in 1..Len(s) : g[a] = g[b] => a = b } }

\* the answers of a relay to the probe of is_alive
Probes == { "2xx", "4xx", "refused" }

\* ShareNode::is_alive: a health probe, alive on any 2xx to the root path
is_alive(probe) == probe = "2xx"

BootPc == [ phase |-> "boot", vol |-> 0, peer |-> 0, round |-> 0 ]
NoPulls == [ i \in 1..Len(VolumeNames) |-> 0 ]
VolumeIndex(name) == CHOOSE i \in 1..Len(VolumeNames) : VolumeNames[i] = name

\* lines 153-188: the start-up; init_ok says whether every fs.init succeeds
Startup(init_ok) ==
    /\ pc.phase = "boot"
    /\ LET lists == resolve(config)
           failed == \/ ~resolves(config)
                     \/ is_empty(lists)
                     \/ (Pairs(config) /= {} /\ ~init_ok)
       IN  /\ vol2relay' = IF failed THEN << >> ELSE lists
           /\ pc' = [ pc EXCEPT !.phase = IF failed THEN "failed" ELSE "top" ]
    /\ last' = Event("startup")
    /\ UNCHANGED << config, pulled, origin >>
    /\ UNCHANGED << rin, routs, pathVars, inflight, mutualVars, peerVars >>
    /\ UNCHANGED << replica, rows, sync, queue >>

\* lines 190-196: a cycle begins, after the sleep of line 240 unless it is
\* the first; the list of volumes is shuffled
CycleStart ==
    /\ pc.phase \in { "top", "sleep" }
    /\ vol2relay' \in shuffle(vol2relay)
    /\ pc' = [ phase |-> "pull", vol |-> 0, peer |-> 0, round |-> 1 - pc.round ]
    /\ pulled' = NoPulls
    /\ last' = Event("cycle-start")
    /\ UNCHANGED << config, origin >>
    /\ UNCHANGED << rin, routs, pathVars, inflight, mutualVars, peerVars >>
    /\ UNCHANGED << replica, rows, sync, queue >>

\* a loop that applies a volume right after it has pulled it
next_volume_interleaved(pos, n) ==
    IF pos.phase = "pull" /\ pos.vol >= 1 THEN [ pos EXCEPT !.phase = "apply" ]
    ELSE IF pos.vol < n THEN [ pos EXCEPT !.phase = "pull", !.vol = @ + 1 ]
    ELSE [ pos EXCEPT !.phase = "sleep", !.vol = 0 ]

\* the outer for loops of lines 197 and 219, at the end of a volume's inner
\* loop: the next volume of the phase, or after the last one the apply phase
\* (line 218), or the sleep (line 240)
next_volume(pos, n) ==
    IF pos.vol < n THEN [ pos EXCEPT !.vol = @ + 1 ]
    ELSE IF pos.phase = "pull" THEN [ pos EXCEPT !.phase = "apply", !.vol = 0 ]
    ELSE [ pos EXCEPT !.phase = "sleep", !.vol = 0 ]

\* lines 197-198 and 219-220: the loop moves on from a volume; the peers of
\* the volume it enters are shuffled
NextVolume ==
    /\ pc.phase \in { "pull", "apply" }
    /\ pc.peer = 0
    /\ LET nxt == next_volume(pc, Len(vol2relay))
           enters == nxt.phase \in { "pull", "apply" } /\ nxt.vol >= 1
       IN  IF enters
           THEN \E order \in shuffle(vol2relay[nxt.vol].peers) :
                    /\ vol2relay' = [ vol2relay EXCEPT ![nxt.vol].peers = order ]
                    /\ pc' = [ nxt EXCEPT !.peer = IF order = << >> THEN 0 ELSE 1 ]
           ELSE /\ pc' = nxt
                /\ UNCHANGED vol2relay
    /\ last' = Event("next-volume")
    /\ UNCHANGED << config, pulled, origin >>
    /\ UNCHANGED << rin, routs, pathVars, inflight, mutualVars, peerVars >>
    /\ UNCHANGED << replica, rows, sync, queue >>

\* an inner loop without the break of lines 213 and 235
after_visit_no_break(pos, n, done) ==
    IF pos.peer = n THEN [ pos EXCEPT !.peer = 0 ] ELSE [ pos EXCEPT !.peer = @ + 1 ]

\* an inner loop that gives the volume up at the first peer that fails
after_visit_give_up(pos, n, done) == [ pos EXCEPT !.peer = 0 ]

\* the inner for loops of lines 200 and 222 after the visit of a peer: over
\* on the break of lines 213 and 235 or after the last peer, else the next
after_visit(pos, n, done) ==
    IF done \/ pos.peer = n THEN [ pos EXCEPT !.peer = 0 ] ELSE [ pos EXCEPT !.peer = @ + 1 ]

\* the rows of the stash may come from at most MaxPeersRows commands
MaxPeersRows == 2

\* lines 200-215: one peer of the volume in the pull phase; ok says whether
\* ShareNode::pull returns Ok, which it does after it has stashed the answer
\* (share.rs:192-194); body is the answer of the peer, stashed in the one
\* table of the node (mod.rs:155-157, 172) under the name of the volume
PullVisit(probe, ok, body) ==
    /\ pc.phase = "pull"
    /\ pc.peer >= 1
    /\ Len(rows) + Len(body) <= MaxPeersRows
    /\ LET edge_nodes == vol2relay[pc.vol]
           alive == is_alive(probe)
           done == alive /\ ok
       IN  /\ pulled' = IF done THEN [ pulled EXCEPT ![VolumeIndex(edge_nodes.volume)] = @ + 1 ]
                        ELSE pulled
           /\ rows' = IF done
                      THEN stash(rows, body, edge_nodes.volume, Ticking(rows, Len(body)))
                      ELSE rows
           /\ origin' = IF done
                        THEN origin \o [ i \in 1..Len(body) |-> edge_nodes.peers[pc.peer] ]
                        ELSE origin
           /\ pc' = after_visit(pc, Len(edge_nodes.peers), done)
           /\ last' = [ kind |-> "pull-visit", volume |-> edge_nodes.volume,
                        peer |-> edge_nodes.peers[pc.peer], at |-> pc.peer,
                        alive |-> alive, called |-> alive, ok |-> done,
                        logged |-> alive /\ ~ok, ran |-> << >> ]
    /\ UNCHANGED << config, vol2relay >>
    /\ UNCHANGED << rin, routs, pathVars, inflight, mutualVars, peerVars >>
    /\ UNCHANGED << replica, sync, queue >>

\* the loop of apply_commands (share.rs:282-291) when every command succeeds
RECURSIVE mark_all(_, _)
mark_all(table, stashed) ==
    IF stashed = << >> THEN table
    ELSE mark_all(mark_done(table, Head(stashed)), Tail(stashed))

\* lines 222-237: one peer of the volume in the apply phase; ok says whether
\* apply_commands returns Ok, which it does unless its unstash fails
\* (share.rs:281).  The ShareNode of the peer runs every row that unstash
\* returns for the volume, its requests going to its own relay
\* (share.rs:199, 219); ran lists them.  The commands are taken to succeed.
ApplyVisit(probe, ok) ==
    /\ pc.phase = "apply"
    /\ pc.peer >= 1
    /\ LET edge_nodes == vol2relay[pc.vol]
           name == edge_nodes.peers[pc.peer]
           alive == is_alive(probe)
           done == alive /\ ok
           stashed == IF done THEN unstash(rows, edge_nodes.volume) ELSE << >>
       IN  /\ pc' = after_visit(pc, Len(edge_nodes.peers), done)
           /\ rows' = mark_all(rows, stashed)
           /\ last' = [ kind |-> "apply-visit", volume |-> edge_nodes.volume,
                        peer |-> name, at |-> pc.peer,
                        alive |-> alive, called |-> alive, ok |-> done,
                        logged |-> alive /\ ~ok,
                        ran |-> [ k \in 1..Len(stashed) |->
                                    [ id |-> stashed[k].id,
                                      from |-> origin[stashed[k].id],
                                      against |-> name ] ] ]
    /\ UNCHANGED << config, vol2relay, pulled, origin >>
    /\ UNCHANGED << rin, routs, pathVars, inflight, mutualVars, peerVars >>
    /\ UNCHANGED << replica, sync, queue >>

\* Synchronizer::run (mod.rs:244-256): the shutdown token drops run_sync
Shutdown ==
    /\ pc.phase \in { "top", "sleep", "pull", "apply" }
    /\ pc' = [ pc EXCEPT !.phase = "cancelled" ]
    /\ last' = Event("shutdown")
    /\ UNCHANGED << config, vol2relay, pulled, origin >>
    /\ UNCHANGED << rin, routs, pathVars, inflight, mutualVars, peerVars >>
    /\ UNCHANGED << replica, rows, sync, queue >>

\* the steps of the loop of run_sync, the peers answering with one of bodies
LoopStepWith(bodies) ==
    \/ CycleStart
    \/ NextVolume
    \/ \E probe \in Probes, ok \in BOOLEAN, body \in bodies : PullVisit(probe, ok, body)
    \/ \E probe \in Probes, ok \in BOOLEAN : ApplyVisit(probe, ok)

\* the steps of the loop of run_sync with peers that have no change to report
LoopStep == LoopStepWith({ << >> })

-----------------------------------------------------------------------------
(* Two nodes A and B, each configured with the volume "v" and with the     *)
(* other as the one alias of its pull_from: each serves /v1/commands,      *)
(* /v1/hash and /v1/download from its volume to the other and runs the     *)
(* Synchronizer against it.  The volume holds the file @/v/b only; the     *)
(* user of A creates and deletes it, the user of B changes nothing.        *)

MutualNodes == { "A", "B" }
Other(n) == IF n = "A" THEN "B" ELSE "A"

\* the clock stops here, and a stash holds at most MaxMutualRows rows
MaxMutualClock == 3
MaxMutualRows == 3

MutualIdle ==
    /\ nodes = [ n \in MutualNodes |-> [ volume |-> EmptyTree, state |-> NoFile, stash |-> << >>,
                                    user |-> "nothing" ] ]
    /\ mclock = 0
    /\ mlast = None

\* the user of node n writes the file with the bytes c
MutualCreate(n, c) ==
    /\ mclock < MaxMutualClock
    /\ nodes[n].volume[PathB] = Absent
    /\ nodes' = [ nodes EXCEPT ![n].volume[PathB] = FileNode(c, mclock + 1),
                               ![n].user = IF @ = "deleted" THEN "recreated"
                                           ELSE "created" ]
    /\ mclock' = mclock + 1
    /\ mlast' = [ kind |-> "create", node |-> n ]
    /\ UNCHANGED << rin, routs, pathVars, cycleVars, inflight, peerVars, pullerVars >>

\* the user of node n removes the file
MutualDelete(n) ==
    /\ mclock < MaxMutualClock
    /\ nodes[n].volume[PathB] /= Absent
    /\ nodes' = [ nodes EXCEPT ![n].volume[PathB] = Absent, ![n].user = "deleted" ]
    /\ mclock' = mclock + 1
    /\ mlast' = [ kind |-> "delete", node |-> n ]
    /\ UNCHANGED << rin, routs, pathVars, cycleVars, inflight, peerVars, pullerVars >>

\* the pull phase of node n (mod.rs:197-216): the other node runs its
\* handler (api.rs:61-91) on its volume and its state file for n, and n
\* stashes the answer (share.rs:167-195)
MutualPull(n) ==
    LET o == Other(n)
        cap == capture(nodes[o].state, nodes[o].volume)
        table == nodes[n].stash
    IN  /\ Len(table) + Len(cap.commands) <= MaxMutualRows
        /\ nodes' = [ m \in MutualNodes |->
                        [ volume |-> nodes[m].volume,
                          state |-> IF m = o THEN cap.file ELSE nodes[m].state,
                          stash |-> IF m = n
                                    THEN stash(table, cap.commands, VolumeName,
                                               Ticking(table, Len(cap.commands)))
                                    ELSE nodes[m].stash,
                          user |-> nodes[m].user ] ]
        /\ mlast' = [ kind |-> "pull", node |-> n ]
        /\ UNCHANGED mclock
        /\ UNCHANGED << rin, routs, pathVars, cycleVars, inflight, peerVars, pullerVars >>

\* the loop of apply_commands (share.rs:282-291) over the rows of an unstash,
\* the relay answering every request from its volume: the table and the
\* local volume afterwards
RECURSIVE apply_commands(_, _, _, _, _)
apply_commands(stashed, table, local, remote, t) ==
    IF stashed = << >> THEN [ table |-> table, volume |-> local ]
    ELSE LET r == run_command(Head(stashed).command, local, remote, NetUp, t)
         IN  apply_commands(Tail(stashed), apply_row(table, Head(stashed), r.ok),
                            r.tree, remote, t)

\* the apply phase of node n (mod.rs:219-238) when it has rows to run
MutualApply(n) ==
    LET stashed == unstash(nodes[n].stash, VolumeName)
        done == apply_commands(stashed, nodes[n].stash, nodes[n].volume,
                               nodes[Other(n)].volume, mclock)
    IN  /\ stashed /= << >>
        /\ nodes' = [ nodes EXCEPT ![n].stash = done.table, ![n].volume = done.volume,
                                   ![n].user = IF done.volume = nodes[n].volume
                                               THEN @ ELSE "nothing" ]
        /\ mlast' = [ kind |-> "apply", node |-> n,
                      ran |-> [ k \in 1..Len(stashed) |-> stashed[k].command ] ]
        /\ UNCHANGED mclock
        /\ UNCHANGED << rin, routs, pathVars, cycleVars, inflight, peerVars, pullerVars >>

-----------------------------------------------------------------------------
(* The reducer applied to an input, and again to its own output.           *)

ReduceStep ==
    /\ Len(routs) < 2
    /\ routs' = Append(routs, reduce_contiguous_subsequences(
                                  IF routs = << >> THEN rin ELSE routs[Len(routs)]))
    /\ UNCHANGED << rin, pathVars, cycleVars, inflight, mutualVars, peerVars, pullerVars >>

-----------------------------------------------------------------------------
(* Initial states.                                                         *)

\* every tree the volume can hold, all of it last modified at time 0
InitialTrees ==
    { tr \in [ Paths -> { Absent, DirNode(0) } \cup { FileNode(c, 0) : c \in Contents } ] :
        WellFormed(tr) }

PathIdle == vpath = << >> /\ vtext = None /\ vback = None
CycleIdle ==
    /\ config = << >> /\ vol2relay = << >> /\ pc = BootPc /\ pulled = NoPulls
    /\ origin = << >>
ReduceIdle == rin = << >> /\ routs = << >> /\ PathIdle /\ CycleIdle

PeerInit ==
    /\ tree \in InitialTrees
    /\ now = 0
    /\ snap = [ c \in Callers |-> NoFile ]
    /\ seen = [ c \in Callers |-> None ]
    /\ mirror = [ c \in Callers |-> None ]
    /\ resp = None
    /\ inflight = << >>

PullerIdle ==
    /\ MutualIdle
    /\ replica = EmptyTree
    /\ rows = << >>
    /\ sync = "pull"
    /\ queue = << >>
    /\ last = None

-----------------------------------------------------------------------------
(* Specifications.                                                         *)

\* the reducer on every sequence of at most MaxLen symbols
InitReduce ==
    /\ rin \in SeqsUpTo(1..MaxSym, MaxLen)
    /\ routs = << >>
    /\ PathIdle /\ CycleIdle
    /\ PeerInit /\ tree = EmptyTree
    /\ PullerIdle
NextReduce == ReduceStep
SpecReduce == InitReduce /\ [][NextReduce]_vars

\* NullFsPath: every path of at most MaxSegs segments of at most MaxSegLen
\* characters is formatted and parsed back
MaxSegs == 3
MaxSegLen == 1
InitPath ==
    /\ vpath \in SeqsUpTo(SeqsUpTo(Chars, MaxSegLen), MaxSegs)
    /\ vtext = None /\ vback = None
    /\ rin = << >> /\ routs = << >> /\ CycleIdle
    /\ PeerInit /\ tree = EmptyTree
    /\ PullerIdle
NextPath ==
    \/ PathDisplay /\ UNCHANGED << peerVars, pullerVars >>
    \/ PathParse /\ UNCHANGED << peerVars, pullerVars >>
SpecPath == InitPath /\ [][NextPath]_vars

\* the local backend resolves every path of at most MaxResolveSegs components
MaxResolveSegs == 4
InitResolve ==
    /\ vpath \in SeqsUpTo(Segments, MaxResolveSegs)
    /\ vtext = None /\ vback = None
    /\ rin = << >> /\ routs = << >> /\ CycleIdle
    /\ PeerInit /\ tree = EmptyTree
    /\ PullerIdle
NextResolve == Resolve /\ UNCHANGED << peerVars, pullerVars >>
SpecResolve == InitResolve /\ [][NextResolve]_vars

\* the reducer on a block of at most MaxBlock pairwise distinct symbols out
\* of 1..MaxBlockSym, repeated once and followed by a symbol not in it; and
\* on the example of the doc comment (mod.rs:450)
MaxBlock == 3
MaxBlockSym == 4
Blocks ==
    { w \in SeqsUpTo(1..MaxBlockSym, MaxBlock) :
        w /= << >> /\ \A i, j \in 1..Len(w) : w[i] = w[j] => i = j }
DocExample == << 1, 2, 3, 1, 2, 3, 4, 5, 4, 5, 1, 2 >>
InitBlocks ==
    /\ rin \in { w \o w \o << d >> : w \in Blocks, d \in 1..MaxBlockSym } \cup { DocExample }
    /\ \/ rin = DocExample
       \/ \A i \in 1..(Len(rin) - 1) : rin[i] /= rin[Len(rin)]
    /\ routs = << >>
    /\ PathIdle /\ CycleIdle
    /\ PeerInit /\ tree = EmptyTree
    /\ PullerIdle
NextBlocks == ReduceStep
SpecBlocks == InitBlocks /\ [][NextBlocks]_vars

\* run_sync on every configuration of at most two volumes whose pull_from
\* lists at most MaxPullFrom distinct aliases, defined or not
MaxPullFrom == 2
PullFroms ==
    { s \in SeqsUpTo(RelayNodes \cup { UnknownAlias }, MaxPullFrom) :
        \A a, b \in 1..Len(s) : s[a] = s[b] => a = b }
Configs ==
    UNION { { [ i \in 1..n |-> [ name |-> VolumeNames[i], pull_from |-> pf[i] ] ] :
                pf \in [ 1..n -> PullFroms ] } : n \in 0..Len(VolumeNames) }
InitCycle ==
    /\ config \in Configs
    /\ vol2relay = << >> /\ pc = BootPc /\ pulled = NoPulls /\ origin = << >>
    /\ rin = << >> /\ routs = << >> /\ PathIdle
    /\ PeerInit /\ tree = EmptyTree
    /\ PullerIdle
NextCycle ==
    \/ \E init_ok \in BOOLEAN : Startup(init_ok)
    \/ LoopStep
    \/ Shutdown
SpecCycle == InitCycle /\ [][NextCycle]_vars

\* the same with the runtime polling the task of run_sync for as long as it
\* is not dropped, and every request of the loop coming back
SpecCycleLive == SpecCycle /\ WF_vars(LoopStep)

\* run_sync for the volume v pulled from two peers, each of which reports
\* the new file @/v/b
PeersConfig == << [ name |-> VolumeName, pull_from |-> << "r1", "r2" >> ] >>
PeersBodies == { << >>, << Write(FileOf([ EmptyTree EXCEPT ![PathB] = MovedFile ], PathB)) >> }
InitPeers == InitCycle /\ config = PeersConfig
NextPeers ==
    \/ Startup(TRUE)
    \/ LoopStepWith(PeersBodies)
SpecPeers == InitPeers /\ [][NextPeers]_vars

\* the bounds of the specifications with more callers or more requests
MaxCallersClock == 2
MaxAuthClock == 1

\* the peer alone: its volume changes, and one caller pulls
InitCapture == ReduceIdle /\ PeerInit /\ PullerIdle
NextCapture ==
    \/ PeerMutation
    \/ CommandsRequest(NodeX, RelayAuth, VolumeName)
SpecCapture == InitCapture /\ [][NextCapture]_vars

\* a volume with every entry present
FullTree ==
    [ p \in Paths |-> IF p = PathA THEN DirNode(0)
                      ELSE IF p = PathAX THEN FileNode("p", 0) ELSE FileNode("", 0) ]

\* the peer and the pulling node, end to end
MaxSyncClock == 2
InitSync == InitCapture /\ tree[PathB] = Absent
NextSync ==
    \/ now < MaxSyncClock /\ PeerMutation
    \/ SyncStep
SpecSync == InitSync /\ [][NextSync]_vars

MaxStashClock == 1
\* the pulling node with a relay whose file @/v/b is moved away and back
InitStash == InitCapture /\ tree \in { EmptyTree, [ EmptyTree EXCEPT ![PathB] = MovedFile ] }
NextStash ==
    \/ now < MaxStashClock /\ (PeerMkdir(PathA) \/ \E c \in Contents : PeerModify(PathB, c))
    \/ PeerMoveAway(PathB)
    \/ PeerMoveBack(PathB)
    \/ SyncStep
SpecStash == InitStash /\ [][NextStash]_vars

\* the pulling node with a clock that may give two inserts the same reading,
\* and a relay whose volume holds a directory with a file in it
MaxTiesClock == 1
InitTies == InitCapture /\ tree \in { FullTree, [ FullTree EXCEPT ![PathB] = Absent ] }
NextTies ==
    \/ now < MaxTiesClock /\ (\E c \in Contents : PeerModify(PathAX, c))
    \/ PullTied
    \/ ApplyStartTied
    \/ \E net \in Nets : ApplyRow(net)
    \/ ApplyEnd
SpecTies == InitTies /\ [][NextTies]_vars

\* the pulling node with pulls that fail after the relay has answered
MaxLostClock == 1
InitLost == InitCapture /\ tree \in { FullTree, [ EmptyTree EXCEPT ![PathB] = MovedFile ] }
NextLost ==
    \/ now < MaxLostClock /\ (\E c \in Contents : PeerModify(PathB, c))
    \/ Pull
    \/ \E k \in 0..MaxRows : PullLost(k)
    \/ ApplyNotAlive
SpecLost == InitLost /\ [][NextLost]_vars

\* the two nodes that pull from each other, with the user of A at work
InitMutual == InitCapture /\ tree = EmptyTree
NextMutual ==
    \/ \E c \in Contents : MutualCreate("A", c)
    \/ MutualDelete("A")
    \/ \E n \in MutualNodes : MutualPull(n)
    \/ \E n \in MutualNodes : MutualApply(n)
SpecMutual == InitMutual /\ [][NextMutual]_vars

\* the peer with two callers
InitCallers == InitCapture /\ tree \in { EmptyTree, FullTree }
NextCallers ==
    \/ now < MaxCallersClock /\ PeerMutation
    \/ \E c \in Callers : CommandsRequest(c, RelayAuth, VolumeName)
SpecCallers == InitCallers /\ [][NextCallers]_vars

\* the peer with two callers whose requests it handles at the same time
MaxOverlapClock == 1
NextOverlap ==
    \/ now < MaxOverlapClock /\ PeerMutation
    \/ \E c \in Callers : HandlerBegin(c)
    \/ \E i \in 1..MaxInflight : HandlerEnd(i)
SpecOverlap == InitCallers /\ [][NextOverlap]_vars

\* the peer with requests of every user, password and volume parameter
Passwords == { NoPassword, Some("s1"), Some("s2") }
Credentials == { User(n, pw) : n \in { "alice", "bob", "carol", "dave" }, pw \in Passwords }
VolumeParams == { "v", " v ", "w" }

InitAuth == InitCapture /\ tree = FullTree
NextAuth ==
    \/ now < MaxAuthClock /\ PeerMutation
    \/ \E user \in Credentials, vp \in VolumeParams : CommandsRequest(NodeX, user, vp)
SpecAuth == InitAuth /\ [][NextAuth]_vars

-----------------------------------------------------------------------------
(* Claims about capture.                                                   *)

\* C2: for two successive captures against the same state file, the second
\* capture's commands, applied in order to a replica that equals the tree as
\* of the first capture, yield a replica equal (paths, kinds, bytes) to the
\* tree as of the second capture.
C2_CommandsTransformReplica ==
    \A c \in Callers :
        mirror[c] /= None => Shape(mirror[c].tree) = Shape(seen[c].tree)

\* C3 witness: a capture that ran right after another one, on a volume that
\* holds entries, has answered
C3_Witness ==
    /\ resp /= None /\ resp.status = 200 /\ resp.repeat
    /\ tree /= EmptyTree
    /\ now > 0

\* C3: capture is idempotent: once a capture has run against a state file,
\* a capture against the same file with no change of the volume in between
\* returns the empty command list.
C3_CaptureIdempotent ==
    \A c \in Callers :
        (snap[c] /= NoFile /\ seen[c] = Seen(tree)) => capture(snap[c], tree).commands = << >>

\* the commands of the last answer of the handler
Body == IF resp = None \/ resp.status /= 200 THEN << >> ELSE resp.body

\* C13 witness: a capture has returned the Write of a new file, whose Touch
\* finalize dropped, next to the Touch of another file
C13_Witness ==
    \E i, j \in 1..Len(Body) :
        /\ Body[i].type = "Write" /\ is_file(Body[i].file)
        /\ Body[j].type = "Touch"

\* C13: command-set minimality: the list returned by a capture holds no
\* Touch{f} and Write{g} with f.path = g.path.
C13_NoTouchWithWrite ==
    \A i, j \in 1..Len(Body) :
        (Body[i].type = "Touch" /\ Body[j].type = "Write") =>
            Body[i].file.path /= Body[j].file.path

\* C27 witness: a capture has persisted a state whose store has the key of a
\* file in a directory, next to the listing of that directory, which it
\* walked as an entry of the root
C27_Witness ==
    /\ snap[NodeX] /= NoFile
    /\ snap[NodeX].store[PathAX] /= None
    /\ snap[NodeX].dirs[PathA] /= None
    /\ snap[NodeX].store[PathA] = None

\* C27: in every state persisted by capture, each key p of store maps to a
\* File whose path equals p and whose stat is a file (never a directory).
C27_StoreHoldsFiles ==
    \A c \in Callers : snap[c] /= NoFile =>
        \A p \in Paths : snap[c].store[p] /= None =>
            /\ snap[c].store[p].path = p
            /\ snap[c].store[p].stat.node.type = "file"

\* C28 witness: a capture has returned the Write of a directory and a command
\* for an entry of that directory
C28_Witness ==
    \E i, j \in 1..Len(Body) :
        /\ Body[i].type = "Write" /\ is_dir(Body[i].file)
        /\ Body[j].file.path /= Body[i].file.path
        /\ IsPrefix(Body[i].file.path, Body[j].file.path)

\* C28: in the list returned by capture, the Write or Delete command for a
\* directory precedes every command whose path lies below that directory.
C28_DirectoryFirst ==
    \A i, j \in 1..Len(Body) :
        ( /\ Body[i].type \in { "Write", "Delete" } /\ is_dir(Body[i].file)
          /\ Body[j].file.path /= Body[i].file.path
          /\ IsPrefix(Body[i].file.path, Body[j].file.path) ) => i < j

\* C14 witness: a capture has returned the Delete of a directory that an
\* earlier capture had walked
C14_Witness ==
    \E i \in 1..Len(Body) :
        /\ Body[i].type = "Delete" /\ is_dir(Body[i].file)
        /\ tree[Body[i].file.path] = Absent

\* C14: closure under delete: in the state a capture persists, neither
\* store nor dirs has the key f.path of a Delete{f} it returns.
C14_DeletedKeysRemoved ==
    \A i \in 1..Len(Body) :
        Body[i].type = "Delete" =>
            /\ snap[state_file(resp.node_id)].store[Body[i].file.path] = None
            /\ snap[state_file(resp.node_id)].dirs[Body[i].file.path] = None

\* C36: after a capture that returns Delete{d} for a directory d, the
\* persisted state has no store key and no dirs key strictly below d.path,
\* so that if d is created again later every file and directory under it is
\* reported by Write in the next capture, whatever its modification time.
C36_NothingBelowDeleted ==
    \A i \in 1..Len(Body) :
        (Body[i].type = "Delete" /\ is_dir(Body[i].file)) =>
            \A p \in Below(Body[i].file.path) \ { Body[i].file.path } :
                /\ snap[state_file(resp.node_id)].store[p] = None
                /\ snap[state_file(resp.node_id)].dirs[p] = None

\* the last answer came from the caller's first capture
FirstCapture == resp /= None /\ resp.status = 200 /\ mirror[resp.node_id] = None

\* the paths of a tree
Present(tr) == { q \in Paths : tr[q] /= Absent }

\* C15 witness: a first capture on a volume with a directory, a file in it
\* and a file next to it
C15_Witness == FirstCapture /\ Present(seen[resp.node_id].tree) = Paths

\* C15: a first capture (no state file yet) on an existing tree returns
\* exactly one Write for every file and every directory below the volume
\* root, and no Touch and no Delete.
C15_FirstCaptureWritesAll ==
    FirstCapture =>
        LET tr == seen[resp.node_id].tree
        IN  /\ \A i \in 1..Len(Body) : Body[i].type = "Write"
            /\ { Body[i].file : i \in 1..Len(Body) } = { FileOf(tr, q) : q \in Present(tr) }
            /\ Len(Body) = Cardinality(Present(tr))

\* a step in which the handler answers a caller that has pulled before
IsLaterCapture ==
    /\ now' = now
    /\ resp' /= None /\ resp'.status = 200
    /\ seen[resp'.node_id] /= None

\* between old and new the directory d was created, with what it holds, and
\* nothing else changed
NewSubtree(old, new, d) ==
    /\ old[d] = Absent
    /\ IsDirIn(new, d)
    /\ \A q \in Paths \ Below(d) : new[q] = old[q]

DeletedOneFile(old, new, p) ==
    /\ IsFileIn(old, p)
    /\ new[p] = Absent
    /\ \A q \in Paths \ { p } :
           IF q = Parent(p) THEN IsDirIn(new, q) ELSE new[q] = old[q]

\* C17 witness: a capture has returned the one Delete of the file that was
\* in a directory which is still there
C17_Witness ==
    /\ Len(Body) = 1
    /\ Body[1].type = "Delete" /\ Body[1].file.path = PathAX
    /\ IsDirIn(seen[resp.node_id].tree, PathA)
    /\ seen[resp.node_id].tree[PathA].modified > Body[1].file.stat.modified

\* C17: when exactly one captured file is deleted and nothing else changes,
\* the next capture returns exactly one command, the Delete of that path;
\* the new mtime of its directory produces no command.
C17_DeleteOneFile ==
    [][ IsLaterCapture =>
          \A p \in Paths :
              DeletedOneFile(seen[resp'.node_id].tree, tree, p) =>
                  /\ Len(resp'.body) = 1
                  /\ resp'.body[1].type = "Delete"
                  /\ resp'.body[1].file.path = p ]_vars

\* between old and new only the modification time of the file p changed
MtimeOnly(old, new, p) ==
    /\ IsFileIn(old, p) /\ IsFileIn(new, p)
    /\ new[p].content = old[p].content
    /\ new[p].modified /= old[p].modified
    /\ \A q \in Paths \ { p } : new[q] = old[q]

\* C18 witness: a capture has returned one Touch, of a file whose bytes are
\* those the caller already has under an older modification time
C18_Witness ==
    /\ Len(Body) = 1 /\ Body[1].type = "Touch"
    /\ mirror[resp.node_id] /= None
    /\ LET p == Body[1].file.path
           had == mirror[resp.node_id].tree[p]
           has == seen[resp.node_id].tree[p]
       IN  /\ had /= Absent /\ had.kind = "file" /\ has.kind = "file"
           /\ had.content = has.content
           /\ had.modified < has.modified

\* C18: when only the modification time of one captured file changes, the
\* next capture returns exactly one command, a Touch of that file, and the
\* store afterwards holds the new modification time.
C18_TouchOnMtime ==
    [][ IsLaterCapture =>
          \A p \in Paths :
              MtimeOnly(seen[resp'.node_id].tree, tree, p) =>
                  /\ resp'.body = << Touch(FileOf(tree, p)) >>
                  /\ snap'[state_file(resp'.node_id)].store[p] = FileOf(tree, p) ]_vars

\* the entry at p is of another kind in new than in old
KindChanged(old, new, p) ==
    /\ old[p] /= Absent /\ new[p] /= Absent
    /\ old[p].kind /= new[p].kind

\* C35: when the kind of an entry changes between two captures while its
\* path stays the same (a file replaced by a directory, or a directory
\* replaced by a file), the later capture returns a command (Write, Touch or
\* Delete) whose path is that entry's path.
C35_KindChangeReported ==
    [][ IsLaterCapture =>
          \A p \in Paths :
              KindChanged(seen[resp'.node_id].tree, tree, p) =>
                  \E i \in 1..Len(resp'.body) : resp'.body[i].file.path = p ]_vars

\* the same for a directory replaced by a file
DirToFileReported ==
    [][ IsLaterCapture =>
          \A p \in Paths :
              (KindChanged(seen[resp'.node_id].tree, tree, p) /\ IsFileIn(tree, p)) =>
                  \E i \in 1..Len(resp'.body) : resp'.body[i].file.path = p ]_vars

NextPull(c) == capture(snap[state_file(c)], tree).commands

\* C8 witness: X has just pulled while Y, which pulled earlier, has changes
\* waiting for its next pull
C8_Witness ==
    /\ resp /= None /\ resp.node_id = NodeX /\ resp.status = 200 /\ resp.body /= << >>
    /\ snap[NodeY] /= NoFile
    /\ NextPull(NodeY) /= << >>

\* C8: per-caller isolation: a /commands pull by one caller leaves the state
\* file of every other caller, and so what that caller receives on its next
\* pull, unchanged.
C8_CallerIsolation ==
    [][ now' = now =>
          \A y \in Callers :
              resp'.node_id /= y =>
                  /\ snap'[y] = snap[y]
                  /\ capture(snap'[state_file(y)], tree').commands = NextPull(y) ]_vars

\* the spec's authorization: the credentials equal some configured user, and
\* that user's name is on the volume's allow list
Authorized(user, volume) ==
    /\ volume \in ConfigVolumes
    /\ \E i \in 1..Len(ConfigUsers) : ConfigUsers[i] = user
    /\ \E j \in 1..Len(ConfigAllow(volume)) : ConfigAllow(volume)[j] = user.name

\* C9 witness: a configured user with its right password, not on the allow
\* list of the volume, was refused; and so was an allowed name with a wrong
\* password
C9_Witness ==
    /\ resp /= None /\ resp.status = 400
    /\ resp.user \in { User("carol", Some("s2")), User("bob", Some("s1")) }
    /\ resp.volume = VolumeName
    /\ snap[NodeX] /= NoFile

\* C9: a /commands request is let through if and only if its credentials
\* equal (name and password) a configured user named in the volume's allow
\* list; one that is not is answered 400 and no state file is created or
\* changed.
C9_Authorization ==
    [][ resp' /= None =>
          /\ resp'.status = 200 <=> Authorized(resp'.user, Trim(resp'.volume))
          /\ resp'.status /= 200 => (resp'.status = 400 /\ snap' = snap) ]_vars

-----------------------------------------------------------------------------
(* Claims about the loop of run_sync.                                      *)

\* a step that visits a peer (every step of the Synchronizer stamps last)
IsVisit == last' /= last /\ last'.kind \in { "pull-visit", "apply-visit" }

\* the position after a visit that did not end the volume's loop
NextPeer == IF pc.peer < Len(vol2relay[pc.vol].peers)
            THEN [ pc EXCEPT !.peer = @ + 1 ] ELSE [ pc EXCEPT !.peer = 0 ]

\* C22 witness: the apply phase is at the second volume, after a pull phase
\* that stashed a result for each of the two volumes
C22_Witness ==
    /\ pc.phase = "apply" /\ pc.vol = 2 /\ pc.peer >= 1
    /\ pulled = [ i \in 1..Len(VolumeNames) |-> 1 ]

\* C22: within every cycle the pull phase finishes for all volumes before
\* the apply phase starts for any volume, and within a phase volumes are
\* processed one at a time: the apply phase is entered only from the pull
\* phase with the inner loop of the last volume over, the sleep only from
\* the apply phase likewise, the pull phase only at the start of a cycle,
\* and inside a phase the loop moves from a volume whose inner loop is over
\* to the next one.
C22_PhasesInOrder ==
    [][ /\ (pc'.phase = "apply" /\ pc.phase /= "apply") =>
               (pc.phase = "pull" /\ pc.vol = Len(vol2relay) /\ pc.peer = 0 /\ pc'.vol = 0)
        /\ (pc'.phase = "sleep" /\ pc.phase /= "sleep") =>
               (pc.phase = "apply" /\ pc.vol = Len(vol2relay) /\ pc.peer = 0)
        /\ (pc'.phase = "pull" /\ pc.phase /= "pull") =>
               (pc.phase \in { "top", "sleep" } /\ pc'.vol = 0 /\ pc'.round /= pc.round)
        /\ (pc.phase \in { "pull", "apply" } /\ pc'.phase = pc.phase) =>
               /\ pc'.round = pc.round
               /\ pc'.vol /= pc.vol => (pc.peer = 0 /\ pc'.vol = pc.vol + 1) ]_vars

C34_AppliedAgainstItsPeer ==
    [][ (IsVisit /\ pc.phase = "apply") =>
          \A k \in 1..Len(last'.ran) : last'.ran[k].against = last'.ran[k].from ]_vars

\* the file that A holds was written by the user of A after that user
\* deleted one, and no apply phase of A has touched it since
Recreated(p) == IsFileIn(nodes["A"].volume, p) /\ nodes["A"].user = "recreated"

\* C37: with two nodes A and B pulling the same volume from each other, a
\* file that A creates at path p after A deleted p is never removed from A
\* by a Delete command that B emitted only because B applied A's earlier
\* deletion of p.  The user of B changes nothing, so B loses a file only by
\* applying a deletion of A: no apply phase of A removes a file that the
\* user of A created after deleting one.
C37_NoEchoedDelete ==
    [][ (mlast'.kind = "apply" /\ mlast'.node = "A") =>
          \A p \in Paths : Recreated(p) => IsFileIn(nodes'["A"].volume, p) ]_vars

\* the same when the apply phase of A runs one row only, a Delete: the file
\* is removed by the Delete itself and by no Touch that failed before it
EchoedDeleteAlone ==
    [][ (mlast'.kind = "apply" /\ mlast'.node = "A" /\ Len(mlast'.ran) = 1
           /\ mlast'.ran[1].type = "Delete") =>
          \A p \in Paths : Recreated(p) => IsFileIn(nodes'["A"].volume, p) ]_vars

\* a peer has just failed: its probe, its pull or its apply_commands
Failure == last.kind \in { "pull-visit", "apply-visit" } /\ ~last.ok

C25_StartupFailsWithoutPairs ==
    (pc.phase /= "boot" /\ Pairs(config) = {}) => pc.phase = "failed"

-----------------------------------------------------------------------------
(* Claims about the pulling node.                                          *)

\* the calls of the last run_command that the claim excludes
HeavyCalls == { i \in 1..Len(last.calls) : last.calls[i] \in { "download", "write", "delete" } }

\* C4 witness: a Touch, or a Write of a regular file, has just run on a path
\* that was there with the peer's hash, the relay having been asked for it
C4_Witness ==
    /\ last.kind = "run"
    /\ last.same_hash
    /\ is_file(last.row.command.file)
    /\ last.calls = << "ask_for_hash", "hash" >>
    /\ replica[last.row.command.file.path] /= Absent

\* C4 as stated: apply is idempotent: a Write or Touch whose path exists
\* locally with a content hash equal to the peer's makes no download, no
\* backend write and no backend delete and the row is marked done; a Delete
\* of an absent path succeeds and changes nothing.
C4_ApplyIdempotent ==
    last.kind = "run" =>
        LET command == last.row.command
        IN  /\ (command.type \in { "Write", "Touch" } /\ last.same_hash) =>
                   /\ HeavyCalls = {}
                   /\ last.ok
                   /\ ~last.changed
                   /\ rows[last.row.id].state = Done
            /\ (command.type = "Delete" /\ ~last.existed) =>
                   /\ last.ok
                   /\ ~last.changed

\* C4 amended: a Touch, or a Write of a regular file, whose path exists
\* locally with a content hash equal to the peer's makes no download, no
\* backend write and no backend delete and the row is marked done; a Write
\* of a directory onto a local directory of equal hash makes the one backend
\* write, which changes nothing, and the row is marked done; a Delete of an
\* absent path succeeds and changes nothing.
C4_ApplyIdempotentByKind ==
    last.kind = "run" =>
        LET command == last.row.command
            dirWrite == command.type = "Write" /\ is_dir(command.file)
        IN  /\ (command.type \in { "Write", "Touch" } /\ ~dirWrite /\ last.same_hash) =>
                   /\ HeavyCalls = {}
                   /\ last.ok
                   /\ ~last.changed
                   /\ rows[last.row.id].state = Done
            /\ (dirWrite /\ last.same_hash /\ last.was_dir) =>
                   /\ last.calls = << "write" >>
                   /\ last.ok
                   /\ ~last.changed
                   /\ rows[last.row.id].state = Done
            /\ (command.type = "Delete" /\ ~last.existed) =>
                   /\ last.ok
                   /\ ~last.changed

\* a step of the loop of apply_commands
IsApplyRow ==
    /\ sync = "applying" /\ sync' = "applying"
    /\ queue /= << >> /\ queue' /= queue
    /\ last'.kind = "run"

\* C5 witness: a row's command has just failed, the row is still pending and
\* rows of the same unstash are waiting behind it
C5_Witness ==
    /\ last.kind = "run" /\ ~last.ok
    /\ rows[last.row.id].state = Pending
    /\ sync = "applying" /\ queue /= << >>

\* C5: in apply_commands a row is marked done only after its command ran
\* without error; when a row's command fails the row keeps its state and the
\* loop goes on with the rows behind it.
C5_MarkedOnlyAfterSuccess ==
    [][ /\ (\E i \in 1..Len(rows) : rows'[i].state /= rows[i].state) =>
               /\ IsApplyRow
               /\ last'.row = Head(queue)
               /\ last'.ok
               /\ \A i \in 1..Len(rows) :
                      rows'[i] = IF rows[i].id = Head(queue).id
                                 THEN [ rows[i] EXCEPT !.state = Done ]
                                 ELSE rows[i]
        /\ (IsApplyRow /\ ~last'.ok) =>
               /\ rows' = rows
               /\ queue' = Tail(queue) ]_vars

\* C33: a failed Touch leaves the local file as it was: if applying
\* Touch{file} returns an error (for example the download fails), the local
\* file at file.path still exists with the content it had before the
\* attempt.
C33_FailedTouchKeepsFile ==
    [][ ( /\ IsApplyRow
          /\ last'.row.command.type = "Touch"
          /\ ~last'.ok
          /\ IsFileIn(replica, last'.row.command.file.path) ) =>
            LET path == last'.row.command.file.path
            IN  /\ IsFileIn(replica', path)
                /\ replica'[path].content = replica[path].content ]_vars

\* C31: commands on the same path take effect in stash order across cycles:
\* if row r1 precedes row r2 in timestamp order and both concern the same
\* path, the filesystem effect of r1 never happens after the effect of r2,
\* even when r1 fails in one cycle and is retried in a later one.  A row has
\* taken effect once its command has run without error and the row is done.
C31_SamePathInStashOrder ==
    [][ (IsApplyRow /\ last'.ok /\ last'.changed) =>
          \A j \in 1..Len(rows) :
              ( /\ rows[j].timestamp > last'.row.timestamp
                /\ rows[j].volume = last'.row.volume
                /\ rows[j].command.file.path = last'.row.command.file.path )
              => rows[j].state /= Done ]_vars

\* the same for the steps taken while no two rows of the stash share a hash
SamePathInStashOrderDistinct ==
    [][ ( /\ \A i, j \in 1..Len(rows) : rows[i].hash = rows[j].hash => i = j
          /\ IsApplyRow /\ last'.ok /\ last'.changed ) =>
          \A j \in 1..Len(rows) :
              ( /\ rows[j].timestamp > last'.row.timestamp
                /\ rows[j].volume = last'.row.volume
                /\ rows[j].command.file.path = last'.row.command.file.path )
              => rows[j].state /= Done ]_vars

\* the ids of the rows of a queue
Ids(q) == { q[k].id : k \in 1..Len(q) }

\* an unstash has just returned a row that an earlier apply phase left
\* pending while it marked a later row done
C6_Witness ==
    /\ last.kind = "unstash"
    /\ \E i, j \in 1..Len(rows) :
           /\ i < j
           /\ IsPendingOf(VolumeName, rows[i])
           /\ rows[j].state = Done
           /\ rows[i].id \in Ids(queue)

\* C6 as stated: every row that was not applied in a cycle (its command
\* failed, or the cycle was cancelled) is still in state 0 afterwards, and
\* the next apply phase of its volume attempts it: its unstash returns it.
C6_RowRetried ==
    [][ /\ (last'.kind = "cancelled" \/ (IsApplyRow /\ ~last'.ok)) => rows' = rows
        /\ (sync = "apply" /\ last'.kind = "unstash") =>
               \A i \in 1..Len(rows) :
                   IsPendingOf(VolumeName, rows[i]) => rows[i].id \in Ids(queue') ]_vars

\* What unstash does guarantee for a row left pending: every row that was not
\* applied in a cycle is still in state 0 afterwards, and the next unstash of
\* its volume returns a pending row with that row's hash and command, which
\* is another row when several pending rows carry the same hash.
C6_CommandRetried ==
    [][ /\ (last'.kind = "cancelled" \/ (IsApplyRow /\ ~last'.ok)) => rows' = rows
        /\ (sync = "apply" /\ last'.kind = "unstash") =>
               \A i \in 1..Len(rows) :
                   IsPendingOf(VolumeName, rows[i]) =>
                       \E k \in 1..Len(queue') :
                           /\ IsPendingOf(VolumeName, queue'[k])
                           /\ queue'[k].hash = rows[i].hash
                           /\ queue'[k].command = rows[i].command
                           /\ \E l \in 1..Len(rows) : rows[l] = queue'[k] ]_vars

\* C20: unstash(volume) returns only rows in state 0 of the requested volume,
\* in ascending timestamp order; never a done row or a row of another
\* volume.  Rows are numbered in timestamp order.
C20_UnstashSelects ==
    [][ (sync = "apply" /\ last'.kind = "unstash") =>
          /\ \A k \in 1..Len(queue') :
                 /\ \E i \in 1..Len(rows) : rows[i] = queue'[k]
                 /\ IsPendingOf(VolumeName, queue'[k])
          /\ \A k, l \in 1..Len(queue') : k < l => queue'[k].id < queue'[l].id ]_vars

\* C21 witness: apply_commands has just marked a row that was already marked
\* (unstash returned it twice), while another row is done and a third pending
C21_Witness ==
    /\ last.kind = "run" /\ last.ok /\ last.was_done
    /\ \E i, j \in 1..Len(rows) :
           /\ rows[i].id /= last.row.id /\ rows[i].state = Done
           /\ rows[j].state = Pending

\* C21: mark_done is idempotent and commutative: marking the same row twice
\* leaves the stash as after marking it once, marking r1 then r2 yields the
\* same stash as marking r2 then r1, and a call changes the state of the row
\* with the given id only (to 5).
C21_MarkDoneAlgebra ==
    LET once == [ i \in 1..Len(rows) |-> mark_done(rows, rows[i]) ]
    IN  \A i \in 1..Len(rows) :
            /\ mark_done(once[i], rows[i]) = once[i]
            /\ \A j \in (i + 1)..Len(rows) :
                   mark_done(once[i], rows[j]) = mark_done(once[j], rows[i])
            /\ Len(once[i]) = Len(rows)
            /\ once[i][i].state = Done
            /\ \A k \in 1..Len(rows) :
                   /\ k /= i => once[i][k].state = rows[k].state
                   /\ [ once[i][k] EXCEPT !.state = Pending ] = [ rows[k] EXCEPT !.state = Pending ]

\* C29: no pending row is left behind by the reduction: when apply_commands
\* has run for the volume and every command it ran succeeded, every row of
\* the volume that was in state 0 at its unstash is in state 5, rows whose
\* hash equals the hash of another pending row included.  (No row is added
\* while apply_commands runs, so the rows pending at its end were pending at
\* its unstash.)
C29_NoPendingLeftBehind ==
    ( /\ sync = "applying" /\ queue = << >>
      /\ (last.kind = "unstash" \/ (last.kind = "run" /\ last.all_ok)) )
    => \A i \in 1..Len(rows) : ~IsPendingOf(VolumeName, rows[i])

\* C30: the list returned by unstash contains each stash row at most once
\* (its row ids are pairwise distinct), and the i-th returned row is the row
\* that stood at the position of the i-th kept hash in the timestamp-ordered
\* pending sequence.
C30_UnstashRowsByPosition ==
    [][ (sync = "apply" /\ last'.kind = "unstash") =>
          LET selected == pending_rows(rows, VolumeName)
              contiguous_hashes == [ i \in 1..Len(selected) |-> selected[i].hash ]
              at == kept_positions(contiguous_hashes, << >>, << >>, 1)
          IN  /\ \A k, l \in 1..Len(queue') : queue'[k].id = queue'[l].id => k = l
              /\ Len(queue') = Len(at)
              /\ \A k \in 1..Len(at) : queue'[k] = selected[at[k]] ]_vars

\* the commands of a sequence of rows
CommandsOf(q) == [ k \in 1..Len(q) |-> q[k].command ]

\* C39: append order is preserved: the commands of one pull response, and of
\* successive pull responses, are returned by unstash in the same relative
\* order in which they were appended (apart from the rows removed by the
\* reduction), also when several rows get the same timestamp.
C39_AppendOrderPreserved ==
    [][ (sync = "apply" /\ last'.kind = "unstash") =>
          IsSubsequence(CommandsOf(queue'), CommandsOf(pending_rows(rows, VolumeName))) ]_vars

\* C32: no detected change is lost between peer and puller: a command that
\* a capture produced for caller C is either appended to C's stash, or, when
\* the response does not reach C or C's stash append fails, produced again
\* by a later capture for C.  Stated for the capture that follows the failed
\* pull with the volume unchanged.
C32_NoChangeLost ==
    (last.kind = "pull-failed" /\ seen[NodeX] = Seen(tree)) =>
        \A i \in (last.appended + 1)..Len(resp.body) :
            \E j \in 1..Len(NextPull(NodeX)) : NextPull(NodeX)[j] = resp.body[i]

\* C7 witness: rows were appended by two pulls, and of the rows unstashed
\* one was marked done and one was not
C7_Witness ==
    /\ Len(rows) >= 3
    /\ \E i, j \in 1..Len(rows) : rows[i].state = Done /\ rows[j].state = Pending
    /\ last.kind = "pull"

\* C7: stash rows are monotone: under append, unstash and mark_done every
\* row has state 0 or 5, no row is ever removed, and a row that reached
\* state 5 never returns to state 0.
C7_StashMonotone ==
    [][ /\ Len(rows') >= Len(rows)
        /\ \A i \in 1..Len(rows) :
               /\ rows'[i].id = rows[i].id
               /\ rows'[i].hash = rows[i].hash
               /\ rows'[i].command = rows[i].command
               /\ rows[i].state = Done => rows'[i].state = Done
        /\ \A i \in 1..Len(rows') : rows'[i].state \in { Pending, Done } ]_vars

\* the pulling node has pulled, has nothing pending, and its next pull would
\* bring nothing
Quiescent ==
    /\ sync = "pull"
    /\ snap[NodeX] /= NoFile
    /\ pending_rows(rows, VolumeName) = << >>
    /\ NextPull(NodeX) = << >>

\* C1: convergence: once the peer's volume no longer changes and the pulling
\* node has pulled and applied everything there is, the pulling node's tree
\* equals the peer's (same paths, kinds and file contents).
C1_Convergence == Quiescent => Shape(replica) = Shape(tree)

-----------------------------------------------------------------------------
(* Claims about NullFsPath.                                                *)

\* C19: path round trip: for every path p, the empty sequence of segments
\* included, from_to_str of the display form of p succeeds and returns p.
C19_PathRoundTrip == vback /= None => (vback.kind = "ok" /\ vback.path = vpath)

\* C38: volume confinement: for every VPath that the local backend of
\* volume V resolves without error, the resolved host path denotes a
\* location inside V's root directory; no segment such as '..' lets a read,
\* write, delete, hash or dir operation reach outside the root.
C38_VolumeConfinement ==
    (vback /= None /\ vback.kind = "ok") => IsPrefix(HostRoot, Walk(<< >>, vback.path))

-----------------------------------------------------------------------------
(* Claims about the reducer.                                               *)

\* C11 witness: the reducer has skipped a block of several elements that ends
\* the input
C11_Witness ==
    /\ Len(routs) >= 1
    /\ Len(rin) >= 2
    /\ Len(routs[1]) < Len(rin)
    /\ rin[Len(rin)] /= rin[Len(rin) - 1]

\* C11: the reducer never drops the final element of its input: for every
\* non-empty input s, reduce(s) is non-empty and ends with the last element
\* of s.
C11_KeepsLastElement ==
    (Len(routs) >= 1 /\ rin /= << >>) =>
        /\ routs[1] /= << >>
        /\ routs[1][Len(routs[1])] = rin[Len(rin)]

\* the block w of an input w ++ w ++ [d]
BlockOf(s) == SubSeq(s, 1, (Len(s) - 1) \div 2)

\* C12 witness: a block of MaxBlock distinct elements, repeated and followed
\* by another element, has been reduced
C12_Witness ==
    /\ Len(routs) >= 1
    /\ Len(rin) = 2 * MaxBlock + 1
    /\ rin = BlockOf(rin) \o BlockOf(rin) \o << rin[Len(rin)] >>

\* C12: the reducer collapses an immediate repetition of a block: for w of
\* pairwise distinct elements and d not in w, reduce(w ++ w ++ [d]) is
\* w ++ [d]; and [1,2,3,1,2,3,4,5,4,5,1,2] reduces to [1,2,3,4,5,1,2].
C12_CollapsesRepeatedBlock ==
    Len(routs) >= 1 =>
        IF rin = DocExample
        THEN routs[1] = << 1, 2, 3, 4, 5, 1, 2 >>
        ELSE routs[1] = Append(BlockOf(rin), rin[Len(rin)])

\* the input of the k-th application of the reducer
ReduceInput(k) == IF k = 1 THEN rin ELSE routs[k - 1]

\* no element occurs twice in s
NoRepeat(s) == \A i, j \in 1..Len(s) : s[i] = s[j] => i = j

\* C40 witness: the reducer has removed elements from an input of several
\* symbols, and has then been given its output, in which none occurs twice
C40_Witness ==
    /\ Len(routs) = 2
    /\ Len(routs[1]) < Len(rin)
    /\ Len(routs[1]) >= 2
    /\ NoRepeat(routs[1])

\* C40: the reducer only removes elements: for every input s, reduce(s) is
\* an order-preserving subsequence of s, and reduce(s) = s whenever no
\* element occurs twice in s.
C40_OnlyRemoves ==
    \A k \in 1..Len(routs) :
        /\ IsSubsequence(routs[k], ReduceInput(k))
        /\ NoRepeat(ReduceInput(k)) => routs[k] = ReduceInput(k)

\* C10: the reducer is idempotent: reduce(reduce(s)) = reduce(s) for every
\* input sequence s.
C10_ReduceIdempotent == Len(routs) = 2 => routs[2] = routs[1]

=============================================================================
